---------------------------- MODULE Spec2Model ----------------------------
(***************************************************************************)
(* RadTach: the activity timer orchestration and metrics engine of         *)
(* src/src/RadTach-Latest.tsx, as a state machine.  Every React state      *)
(* cell of the component is a variable, every event handler, timer         *)
(* callback and effect is an action, and the two valuation functions are   *)
(* operators computed the way the code computes them.                      *)
(***************************************************************************)
EXTENDS Integers, Sequences, FiniteSets, TLC

(***************************************************************************)
(* JavaScript numbers.  Seconds and counters are integers.  RVU values are *)
(* IEEE-754 doubles: a double d is the pair <<hi, lo>> standing for        *)
(* (hi * 2^30 + lo) * 2^-55, lo in 0..2^30-1, hi signed.  Every value the  *)
(* model feeds in is a multiple of 2^-55, so sums and differences are      *)
(* exact integers in that unit and the only rounding is the one to 53      *)
(* significant bits (round to nearest, ties to even).                      *)
(***************************************************************************)
Limb == 2^30

DZero == <<0, 0>>

DNeg(a) == IF a[2] = 0 THEN <<0 - a[1], 0>> ELSE <<0 - a[1] - 1, Limb - a[2]>>

DExactAdd(a, b) ==
  LET s == a[2] + b[2]
  IN  <<a[1] + b[1] + (s \div Limb), s % Limb>>

RECURSIVE BitLen(_)
BitLen(n) == IF n = 0 THEN 0 ELSE 1 + BitLen(n \div 2)

\* round a non-negative exact value to 53 significant bits, ties to even
DRound53(m) ==
  LET len == IF m[1] = 0 THEN BitLen(m[2]) ELSE 30 + BitLen(m[1])
  IN  IF len <= 53 THEN m
      ELSE LET p   == 2^(len - 53)
               r   == m[2] % p
               q   == m[2] \div p
               up  == (2 * r > p) \/ (2 * r = p /\ q % 2 = 1)
               lo2 == (q + (IF up THEN 1 ELSE 0)) * p
           IN  <<m[1] + (lo2 \div Limb), lo2 % Limb>>

\* a + b on doubles (src: every `+` on an RVU value)
DAdd(a, b) ==
  LET e == DExactAdd(a, b)
  IN  IF e[1] < 0 THEN DNeg(DRound53(DNeg(e))) ELSE DRound53(e)

\* a - b on doubles
DSub(a, b) == DAdd(a, DNeg(b))

\* the doubles nearest to the decimal literals the program and its inputs use
D_0_2 == <<6710886, 429496730>>
D_0_3 == <<10066329, 644245094>>
D_0_4 == <<13421772, 858993460>>
D_0_5 == <<16777216, 0>>
D_0_6 == <<20132659, 214748364>>
D_0_7 == <<23488102, 429496728>>
D_1_0 == <<33554432, 0>>
D_1_3 == <<43620761, 644245096>>
D_1_5 == <<50331648, 0>>
D_2_0 == <<67108864, 0>>
D_2_4 == <<80530636, 858993456>>

(***************************************************************************)
(* Strings typed into the settings inputs are sequences of characters.     *)
(***************************************************************************)
Digits == {"0", "1", "2", "3", "4", "5", "6", "7", "8", "9"}

DigitVal(c) ==
  CASE c = "0" -> 0 [] c = "1" -> 1 [] c = "2" -> 2 [] c = "3" -> 3
    [] c = "4" -> 4 [] c = "5" -> 5 [] c = "6" -> 6 [] c = "7" -> 7
    [] c = "8" -> 8 [] c = "9" -> 9

RECURSIVE DigitRun(_, _, _)
\* value of the longest run of digits of s starting at position i, acc so far
DigitRun(s, i, acc) ==
  IF i > Len(s) \/ s[i] \notin Digits THEN acc
  ELSE DigitRun(s, i + 1, 10 * acc + DigitVal(s[i]))

RECURSIVE SkipSpace(_, _)
SkipSpace(s, i) == IF i <= Len(s) /\ s[i] = " " THEN SkipSpace(s, i + 1) ELSE i

\* parseInt(value): [nan, val]; leading blanks, an optional sign, then digits
\* up to the first character that is no digit; NaN when there is no digit
ParseInt(s) ==
  LET i    == SkipSpace(s, 1)
      neg  == i <= Len(s) /\ s[i] = "-"
      j    == IF i <= Len(s) /\ s[i] \in {"-", "+"} THEN i + 1 ELSE i
  IN  IF j > Len(s) \/ s[j] \notin Digits
        THEN [nan |-> TRUE, val |-> 0]
        ELSE [nan |-> FALSE,
              val |-> IF neg THEN 0 - DigitRun(s, j, 0) ELSE DigitRun(s, j, 0)]

\* the longest prefix of s, leading blanks skipped, that reads as a decimal
\* literal: an optional sign, digits, and a point with digits
FloatPrefix(s) ==
  LET i == SkipSpace(s, 1)
      j == IF i <= Len(s) /\ s[i] \in {"-", "+"} THEN i + 1 ELSE i
      RECURSIVE PastDigits(_)
      PastDigits(k) == IF k <= Len(s) /\ s[k] \in Digits THEN PastDigits(k + 1) ELSE k
      k == PastDigits(j)
      m == IF k <= Len(s) /\ s[k] = "." THEN PastDigits(k + 1) ELSE k
  IN  IF k = j /\ m <= k + 1 THEN <<>>
      ELSE SubSeq(s, i, (IF m = k + 1 THEN k ELSE m) - 1)

\* parseFloat(value) on the numeric literals of the model: [nan, val]; the
\* characters after the literal are ignored
ParseFloat(s) ==
  LET lit == FloatPrefix(s)
  IN  CASE lit = <<"0", ".", "3">>      -> [nan |-> FALSE, val |-> D_0_3]
        [] lit = <<"0", ".", "7">>      -> [nan |-> FALSE, val |-> D_0_7]
        [] lit = <<"0", ".", "5">>      -> [nan |-> FALSE, val |-> D_0_5]
        [] lit = <<"1">>                -> [nan |-> FALSE, val |-> D_1_0]
        [] lit = <<"0">>                -> [nan |-> FALSE, val |-> DZero]
        [] lit = <<"-", "0", ".", "5">> -> [nan |-> FALSE, val |-> DNeg(D_0_5)]
        [] lit = <<"0", ".", "2">>      -> [nan |-> FALSE, val |-> D_0_2]
        [] lit = <<"0", ".", "4">>      -> [nan |-> FALSE, val |-> D_0_4]
        [] lit = <<"0", ".", "6">>      -> [nan |-> FALSE, val |-> D_0_6]
        [] lit = <<"1", ".", "3">>      -> [nan |-> FALSE, val |-> D_1_3]
        [] lit = <<"1", ".", "5">>      -> [nan |-> FALSE, val |-> D_1_5]
        [] lit = <<"2">>                -> [nan |-> FALSE, val |-> D_2_0]
        [] lit = <<"2", ".", "4">>      -> [nan |-> FALSE, val |-> D_2_4]
        [] lit = <<"+", "1">>           -> [nan |-> FALSE, val |-> D_1_0]
        [] lit = <<"+", "2">>           -> [nan |-> FALSE, val |-> D_2_0]
        [] OTHER                        -> [nan |-> TRUE, val |-> DZero]

(***************************************************************************)
(* Types and default settings                                              *)
(***************************************************************************)
Null == "null"

modalities == {"XR", "FL", "CT", "US", "MR", "NM", "MA", "PET-CT"}

complications ==
  {"Cancer Follow", "+1 Section", "+2 Section", "Multiple Priors", "Age >70",
   "Complex Hx", "Prior Surg Hx", "CTA", "Bilateral", "Vascular"}

defaultParTimes ==
  [k \in modalities \cup complications |->
     CASE k = "XR" -> 90 [] k = "FL" -> 120 [] k = "CT" -> 240 [] k = "US" -> 120
       [] k = "MR" -> 240 [] k = "NM" -> 240 [] k = "MA" -> 240
       [] k = "PET-CT" -> 600 [] k = "Cancer Follow" -> 240
       [] k = "+1 Section" -> 120 [] k = "+2 Section" -> 240
       [] k = "Multiple Priors" -> 120 [] k = "Age >70" -> 120
       [] k = "Complex Hx" -> 120 [] k = "Prior Surg Hx" -> 120
       [] k = "CTA" -> 180 [] k = "Bilateral" -> 0 [] k = "Vascular" -> 120]

\* an RVU entry is a plain number or a per-modality object
RvuNum(d) == [isObj |-> FALSE, num |-> d, sub |-> <<>>]
RvuObj(f) == [isObj |-> TRUE, num |-> DZero, sub |-> f]

defaultRVUValues ==
  [k \in modalities \cup {"+1 Section", "+2 Section", "CTA"} |->
     CASE k = "XR" -> RvuNum(D_0_2) [] k = "FL" -> RvuNum(D_0_4)
       [] k = "CT" -> RvuNum(D_1_0) [] k = "US" -> RvuNum(D_0_5)
       [] k = "MR" -> RvuNum(D_1_3) [] k = "NM" -> RvuNum(D_0_6)
       [] k = "MA" -> RvuNum(D_1_3) [] k = "PET-CT" -> RvuNum(D_2_4)
       [] k = "+1 Section" -> RvuObj([m \in {"CT", "US"} |-> D_0_5])
       [] k = "+2 Section" -> RvuObj([m \in {"CT"} |-> D_1_0])
       [] k = "CTA" -> RvuObj([m \in {"CT"} |-> D_0_4])]

(***************************************************************************)
(* State: one variable per React state cell of the component               *)
(***************************************************************************)
VARIABLES
  isRunning, currentTime, cumulativeVariance, studiesCompleted, isPaused,
  doubleTapTime, isDoubleTapRunning, doubleTapEvents, studyWasAutoPaused,
  sessionTime, interstitialTime, isInterstitialRunning, isSessionTimeRunning,
  adminTime, commsTime, isAdminTimeRunning, isCommsTimeRunning,
  adminEvents, commsEvents,
  selectedModality, selectedComplications,
  parTimes, rvuValues,
  totalRVU, rvuPerHour, completedStudies, rollingRVU,
  lastStudy, currentStreak,
  isDraftMode, draftStudy,
  isBreakTimeRunning, breakTime, breaksTaken, timeSinceLastBreak,
  showBreakPrompt, breakPromptHours, showAnimalMessage, lastBreakDeclineTime,
  autoStartEnabled,
  \* the environment of the component
  now,                    \* Date.now(), in ms since the page was loaded
  interstitialOffPending, \* the setTimeout(..., 0) of toggleTimer is queued
  \* history, for stating the properties: the last handler that ran
  hist

\* the category flags toggleTimer writes
startVars ==
  <<isRunning, isPaused, isInterstitialRunning, isAdminTimeRunning,
    isCommsTimeRunning, isBreakTimeRunning, isSessionTimeRunning,
    interstitialOffPending>>

counterVars ==
  <<currentTime, sessionTime, interstitialTime, adminTime, commsTime,
    breakTime, doubleTapTime, timeSinceLastBreak>>

eventVars == <<adminEvents, commsEvents, doubleTapEvents, breaksTaken>>

selectionVars == <<selectedModality, selectedComplications>>

configVars == <<parTimes, rvuValues>>

metricVars ==
  <<cumulativeVariance, studiesCompleted, totalRVU, rvuPerHour,
    completedStudies, rollingRVU, lastStudy, currentStreak>>

draftVars == <<isDraftMode, draftStudy>>

promptVars ==
  <<showBreakPrompt, breakPromptHours, showAnimalMessage, lastBreakDeclineTime>>

\* every state cell of the component (not the clock, not the history)
progVars ==
  <<startVars, counterVars, eventVars, selectionVars, configVars, metricVars,
    draftVars, promptVars, isDoubleTapRunning, studyWasAutoPaused,
    autoStartEnabled>>

vars == <<progVars, now, hist>>

(***************************************************************************)
(* Valuation: calculateParTime and calculateRVU                            *)
(***************************************************************************)
\* parTimes[k] || 0
ParOrZero(pt, k) == IF k \in DOMAIN pt THEN pt[k] ELSE 0

RECURSIVE ParTimeLoop(_, _, _, _)
\* the forEach of calculateParTime from position i: <<total, hasBilateral>>
ParTimeLoop(pt, comps, i, acc) ==
  IF i > Len(comps) THEN acc
  ELSE IF comps[i] = "Bilateral"
         THEN ParTimeLoop(pt, comps, i + 1, <<acc[1], TRUE>>)
         ELSE ParTimeLoop(pt, comps, i + 1,
                          <<acc[1] + ParOrZero(pt, comps[i]), acc[2]>>)

calculateParTime(pt, modality, comps) ==
  IF modality = Null THEN 0
  ELSE LET r == ParTimeLoop(pt, comps, 1, <<ParOrZero(pt, modality), FALSE>>)
       IN  IF r[2] THEN r[1] * 2 ELSE r[1]

\* what one complication adds to the RVU of a study of this modality; a
\* complication the loop skips adds 0
CompRvu(rv, modality, comp) ==
  IF comp \notin DOMAIN rv THEN DZero
  ELSE IF rv[comp].isObj
         THEN IF modality \in DOMAIN rv[comp].sub
                THEN rv[comp].sub[modality] ELSE DZero
         ELSE rv[comp].num

RECURSIVE RvuLoop(_, _, _, _, _)
\* the forEach of calculateRVU from position i: the running total
RvuLoop(rv, modality, comps, i, total) ==
  IF i > Len(comps) THEN total
  ELSE RvuLoop(rv, modality, comps, i + 1,
               DAdd(total, CompRvu(rv, modality, comps[i])))

\* typeof modalityRVU === 'number' ? modalityRVU : 0
BaseRvu(rv, modality) ==
  IF modality \in DOMAIN rv /\ ~rv[modality].isObj THEN rv[modality].num
  ELSE DZero

\* a faulty variant: the complications add nothing
calculateRVUBaseOnly(rv, modality, comps) ==
  IF modality = Null THEN DZero ELSE BaseRvu(rv, modality)

calculateRVU(rv, modality, comps) ==
  IF modality = Null THEN DZero
  ELSE RvuLoop(rv, modality, comps, 1, BaseRvu(rv, modality))

currentParTime == calculateParTime(parTimes, selectedModality, selectedComplications)

currentStudyRVU == calculateRVU(rvuValues, selectedModality, selectedComplications)

(***************************************************************************)
(* Records the component keeps                                             *)
(***************************************************************************)
NoLastStudy == [has |-> FALSE, variance |-> 0, rvu |-> DZero, streakBefore |-> 0]

NoDraft ==
  [has |-> FALSE, modality |-> Null, complications |-> <<>>, currentTime |-> 0,
   parTime |-> 0]

\* rvuPerHour is total / (seconds / 3600), kept as the two operands
RateZero == [zero |-> TRUE, total |-> DZero, seconds |-> 0]
RateOf(total, seconds) == [zero |-> FALSE, total |-> total, seconds |-> seconds]

\* history: no handler has run
NoSnapshot == [has |-> FALSE, variance |-> 0, total |-> DZero, streak |-> 0, count |-> 0]
NoInterrupt ==
  [has |-> FALSE, by |-> "", modality |-> Null, complications |-> <<>>,
   time |-> 0, clean |-> FALSE]
HistInit ==
  [op |-> "init", n |-> 0, branch |-> "", alert |-> "", auto |-> FALSE,
   prompted |-> FALSE, resumed |-> "no", pre |-> NoSnapshot,
   intr |-> NoInterrupt]

Init ==
  /\ isRunning = FALSE /\ currentTime = 0 /\ cumulativeVariance = 0
  /\ studiesCompleted = 0 /\ isPaused = FALSE
  /\ doubleTapTime = 0 /\ isDoubleTapRunning = FALSE /\ doubleTapEvents = 0
  /\ studyWasAutoPaused = FALSE
  /\ sessionTime = 0 /\ interstitialTime = 0
  /\ isInterstitialRunning = FALSE /\ isSessionTimeRunning = FALSE
  /\ adminTime = 0 /\ commsTime = 0
  /\ isAdminTimeRunning = FALSE /\ isCommsTimeRunning = FALSE
  /\ adminEvents = 0 /\ commsEvents = 0
  /\ selectedModality = Null /\ selectedComplications = <<>>
  /\ parTimes = defaultParTimes /\ rvuValues = defaultRVUValues
  /\ totalRVU = DZero /\ rvuPerHour = RateZero
  /\ completedStudies = <<>> /\ rollingRVU = DZero
  /\ lastStudy = NoLastStudy /\ currentStreak = 0
  /\ isDraftMode = FALSE /\ draftStudy = NoDraft
  /\ isBreakTimeRunning = FALSE /\ breakTime = 0 /\ breaksTaken = 0
  /\ timeSinceLastBreak = 0
  /\ showBreakPrompt = FALSE /\ breakPromptHours = 2
  /\ showAnimalMessage = FALSE /\ lastBreakDeclineTime = 0
  /\ autoStartEnabled \in BOOLEAN  \* the preference loaded from localStorage
  /\ now = 0
  /\ interstitialOffPending = FALSE
  /\ hist = HistInit

(***************************************************************************)
(* History bookkeeping.  hist.op is the handler that ran last and          *)
(* hist.branch the branch it took; hist.alert is the text it alerted;      *)
(* hist.auto says that the auto-start effect ran toggleTimer after it;     *)
(* hist.prompted that it called setShowBreakPrompt(true); hist.pre holds   *)
(* the metrics as they were before the completion that ran last;           *)
(* hist.intr holds the study an Admin/Comms start auto-paused, and whether *)
(* only time has passed since; hist.resumed says whether a stop resumed it.*)
(* hist.n counts the steps charged to the session's budget: the sessions   *)
(* explored hold a bounded number of them.                                 *)
(***************************************************************************)
\* a budget b is [free, max]: the handlers named in b.free may run at will,
\* the others b.max times in all
Charge(b, op) == IF op \in b.free THEN hist.n ELSE hist.n + 1

\* the handler may run: the session still has room for it
Room(b, op) == op \in b.free \/ hist.n < b.max

\* the interrupted study once a handler other than the clock has run
Touched == IF hist.intr.has THEN [hist.intr EXCEPT !.clean = FALSE] ELSE hist.intr

Log(b, op, branch, alert) ==
  hist' = [op |-> op, n |-> Charge(b, op), branch |-> branch, alert |-> alert, auto |-> FALSE,
           prompted |-> FALSE, resumed |-> "no", pre |-> NoSnapshot,
           intr |-> Touched]

LogAuto(b, op, branch, fired) ==
  hist' = [op |-> op, n |-> Charge(b, op), branch |-> branch, alert |-> "", auto |-> fired,
           prompted |-> FALSE, resumed |-> "no", pre |-> NoSnapshot,
           intr |-> Touched]

(***************************************************************************)
(* toggleTimer: the Par Time tile, and the auto-start effect               *)
(***************************************************************************)
\* a faulty variant of the start: the session clock is not started
StartTimerNoSession ==
  /\ isRunning' = TRUE
  /\ isPaused' = FALSE
  /\ isAdminTimeRunning' = FALSE
  /\ isCommsTimeRunning' = FALSE
  /\ isBreakTimeRunning' = FALSE
  /\ isInterstitialRunning' = FALSE
  /\ UNCHANGED <<isSessionTimeRunning, interstitialOffPending>>

\* the branch that starts or resumes a study
StartTimer ==
  /\ isRunning' = TRUE
  /\ isPaused' = FALSE
  /\ isAdminTimeRunning' = FALSE
  /\ isCommsTimeRunning' = FALSE
  /\ isBreakTimeRunning' = FALSE
  /\ IF ~isSessionTimeRunning
       THEN \* setIsInterstitialRunning(false) then (true): the last call wins
            /\ isSessionTimeRunning' = TRUE
            /\ isInterstitialRunning' = TRUE
            /\ interstitialOffPending' = TRUE
       ELSE /\ isInterstitialRunning' = FALSE
            /\ UNCHANGED <<isSessionTimeRunning, interstitialOffPending>>

\* the branch that pauses the running study
PauseTimer ==
  /\ isRunning' = FALSE
  /\ isPaused' = TRUE
  /\ isInterstitialRunning' = TRUE
  /\ UNCHANGED <<isAdminTimeRunning, isCommsTimeRunning, isBreakTimeRunning,
                 isSessionTimeRunning, interstitialOffPending>>

\* a faulty variant of the guard: a start is never refused
StartNeverBlocked == FALSE

\* if (!selectedModality && !isRunning) { alert(...); return; }
StartBlocked == selectedModality = Null /\ ~isRunning

ToggleTimer(b) ==
  /\ Room(b, "toggleTimer")
  /\ IF StartBlocked
       THEN /\ Log(b, "toggleTimer", "rejected", "Please select a modality before starting")
            /\ UNCHANGED startVars
       ELSE IF ~isRunning
              THEN StartTimer /\ Log(b, "toggleTimer", "start", "")
              ELSE PauseTimer /\ Log(b, "toggleTimer", "pause", "")
  /\ UNCHANGED <<counterVars, eventVars, selectionVars, configVars, metricVars,
                 draftVars, promptVars, isDoubleTapRunning, studyWasAutoPaused,
                 autoStartEnabled, now>>

\* the setTimeout(() => setIsInterstitialRunning(false), 0) of the first start
InterstitialOffTimeout(b) ==
  /\ Room(b, "interstitialOff")
  /\ interstitialOffPending
  /\ interstitialOffPending' = FALSE
  /\ isInterstitialRunning' = FALSE
  /\ hist' = [hist EXCEPT !.op = "interstitialOff",
                          !.n = Charge(b, "interstitialOff"), !.branch = "", !.alert = "",
                          !.auto = FALSE, !.prompted = FALSE, !.resumed = "no",
                          !.pre = NoSnapshot]
  /\ UNCHANGED <<isRunning, isPaused, isAdminTimeRunning, isCommsTimeRunning,
                 isBreakTimeRunning, isSessionTimeRunning,
                 counterVars, eventVars, selectionVars, configVars, metricVars,
                 draftVars, promptVars, isDoubleTapRunning, studyWasAutoPaused,
                 autoStartEnabled, now>>

\* the auto-start effect, run after a render in which selectedModality or
\* autoStartEnabled changed: newAuto, newModality, newDraftMode are the values
\* of that render.  TRUE when it calls toggleTimer
\* a faulty variant of the effect: a held draft does not stop the auto-start
AutoStartFiresInDraft(changed, newAuto, newModality, newDraftMode) ==
  changed /\ newAuto /\ newModality # Null /\ ~isRunning

AutoStartFires(changed, newAuto, newModality, newDraftMode) ==
  changed /\ newAuto /\ newModality # Null /\ ~isRunning /\ ~newDraftMode

(***************************************************************************)
(* Selecting the study                                                     *)
(***************************************************************************)
SelectModality(b, m) ==
  /\ Room(b, "selectModality")
  /\ selectedModality' = m
  /\ LET fires == AutoStartFires(m # selectedModality, autoStartEnabled, m, isDraftMode)
     IN  /\ IF fires THEN StartTimer ELSE UNCHANGED startVars
         /\ LogAuto(b, "selectModality", "", fires)
  /\ UNCHANGED <<counterVars, eventVars, selectedComplications, configVars,
                 metricVars, draftVars, promptVars, isDoubleTapRunning,
                 studyWasAutoPaused, autoStartEnabled, now>>

SeqWithout(s, c) == SelectSeq(s, LAMBDA x : x # c)

SeqIncludes(s, c) == \E i \in 1..Len(s) : s[i] = c

toggleComplication(comps, c) ==
  IF SeqIncludes(comps, c) THEN SeqWithout(comps, c) ELSE Append(comps, c)

ToggleComplication(b, c) ==
  /\ Room(b, "toggleComplication")
  /\ selectedComplications' = toggleComplication(selectedComplications, c)
  /\ Log(b, "toggleComplication", "", "")
  /\ UNCHANGED <<startVars, counterVars, eventVars, selectedModality, configVars,
                 metricVars, draftVars, promptVars, isDoubleTapRunning,
                 studyWasAutoPaused, autoStartEnabled, now>>

ToggleAutoStart(b) ==
  /\ Room(b, "toggleAutoStart")
  /\ autoStartEnabled' = ~autoStartEnabled
  /\ LET fires == AutoStartFires(TRUE, ~autoStartEnabled, selectedModality, isDraftMode)
     IN  /\ IF fires THEN StartTimer ELSE UNCHANGED startVars
         /\ LogAuto(b, "toggleAutoStart", "", fires)
  /\ UNCHANGED <<counterVars, eventVars, selectionVars, configVars, metricVars,
                 draftVars, promptVars, isDoubleTapRunning, studyWasAutoPaused,
                 now>>

(***************************************************************************)
(* completeStudy and undoLastStudy                                         *)
(***************************************************************************)
StreakMax == 6

PromptAfterMinutes == 120

DeclineCooldownMinutes == 60

RollingWindowMs == 60 * 60 * 1000

Min(a, b) == IF a <= b THEN a ELSE b

\* a faulty variant: the comparison is strict
MinutesMoreThan(seconds, minutes) == seconds > minutes * 60

\* seconds / 60 >= minutes, on numbers: the quotient of two integers is
\* rounded monotonically and a multiple of 60 divides exactly
MinutesAtLeast(seconds, minutes) == seconds >= minutes * 60

\* a faulty variant: a declined prompt does not delay the next one
ShouldPromptBreakNoCooldown(sinceBreak, declinedAt) ==
  MinutesAtLeast(sinceBreak, PromptAfterMinutes)

\* the break prompt check at the end of completeStudy
ShouldPromptBreak(sinceBreak, declinedAt) ==
  /\ MinutesAtLeast(sinceBreak, PromptAfterMinutes)
  /\ IF declinedAt > 0
       THEN MinutesAtLeast(sinceBreak - declinedAt, DeclineCooldownMinutes)
       ELSE MinutesAtLeast(sinceBreak, DeclineCooldownMinutes)

\* a faulty variant: the streak is not clamped
StreakAfterUnclamped(streak, variance) ==
  IF variance <= 0 THEN streak + 1 ELSE 0

\* currentStreak after a completion with this variance
StreakAfter(streak, variance) ==
  IF variance <= 0 THEN Min(streak + 1, StreakMax) ELSE 0

RECURSIVE SumRvu(_, _, _)
\* recentStudies.reduce((sum, study) => sum + study.rvu, 0) from position i
SumRvu(studies, i, sum) ==
  IF i > Len(studies) THEN sum
  ELSE SumRvu(studies, i + 1, DAdd(sum, studies[i].rvu))

\* a faulty variant: every record counts, however old
RollingRvuAll(studies, t) == SumRvu(studies, 1, DZero)

\* the rolling RVU of the last 60 minutes
RollingRvu(studies, t) ==
  SumRvu(SelectSeq(studies, LAMBDA st : st.timestamp >= t - RollingWindowMs),
         1, DZero)

\* rvuPerHour after a completion or an undo
\* a faulty variant: the rate after a completion is taken from the total
\* before the completed study was added
RateAfterCompleteOldTotal(newTotal) ==
  IF sessionTime > 0 THEN RateOf(totalRVU, sessionTime) ELSE rvuPerHour

RateAfterComplete(newTotal) ==
  IF sessionTime > 0 THEN RateOf(newTotal, sessionTime) ELSE rvuPerHour

RateAfterUndo(newTotal) ==
  IF sessionTime > 0 THEN RateOf(newTotal, sessionTime) ELSE RateZero

\* a faulty variant: the undo takes every completion back
TotalAfterUndoAll(total, rvu) == DZero

\* totalRVU after undoing a study worth rvu
TotalAfterUndo(total, rvu) == DSub(total, rvu)

MetricsNow ==
  [has |-> TRUE, variance |-> cumulativeVariance, total |-> totalRVU,
   streak |-> currentStreak, count |-> studiesCompleted]

\* a faulty variant: the completion leaves the complications and the pause
\* flag of the finished study in place
CompleteStudyKeepsSelection(b, maxDone) ==
  /\ Room(b, "completeStudy")
  /\ Len(completedStudies) < maxDone
  /\ IF selectedModality = Null
       THEN /\ Log(b, "completeStudy", "rejected", "Please select a modality")
            /\ UNCHANGED <<isRunning, isPaused, isInterstitialRunning, currentTime,
                           selectionVars, metricVars, showBreakPrompt,
                           breakPromptHours>>
       ELSE IF currentTime = 0 /\ ~isRunning
         THEN /\ Log(b, "completeStudy", "rejected",
                     "Please start the timer by clicking Par Time before completing the study")
              /\ UNCHANGED <<isRunning, isPaused, isInterstitialRunning, currentTime,
                             selectionVars, metricVars, showBreakPrompt,
                             breakPromptHours>>
         ELSE LET variance    == currentTime - currentParTime
                  newTotalRVU == DAdd(totalRVU, currentStudyRVU)
                  updated     == Append(completedStudies,
                                        [timestamp |-> now, rvu |-> currentStudyRVU])
                  prompt      == ShouldPromptBreak(timeSinceLastBreak, lastBreakDeclineTime)
              IN  /\ isRunning' = FALSE
                  /\ currentStreak' = StreakAfter(currentStreak, variance)
                  /\ lastStudy' = [has |-> TRUE, variance |-> variance,
                                   rvu |-> currentStudyRVU,
                                   streakBefore |-> currentStreak]
                  /\ cumulativeVariance' = cumulativeVariance + variance
                  /\ totalRVU' = newTotalRVU
                  /\ rvuPerHour' = RateAfterComplete(newTotalRVU)
                  /\ completedStudies' = updated
                  /\ rollingRVU' = RollingRvu(updated, now)
                  /\ studiesCompleted' = studiesCompleted + 1
                  /\ isInterstitialRunning' = TRUE
                  /\ currentTime' = 0
                  /\ selectedModality' = Null
                  /\ UNCHANGED <<isPaused, selectedComplications>>
                  /\ IF prompt
                       THEN /\ breakPromptHours' = timeSinceLastBreak \div 3600
                            /\ showBreakPrompt' = TRUE
                       ELSE UNCHANGED <<breakPromptHours, showBreakPrompt>>
                  /\ hist' = [op |-> "completeStudy", n |-> Charge(b, "completeStudy"), branch |-> "done", alert |-> "",
                              auto |-> FALSE, prompted |-> prompt, resumed |-> "no",
                              pre |-> MetricsNow, intr |-> Touched]
  /\ UNCHANGED <<isAdminTimeRunning, isCommsTimeRunning, isBreakTimeRunning,
                 isSessionTimeRunning, interstitialOffPending,
                 sessionTime, interstitialTime, adminTime, commsTime, breakTime,
                 doubleTapTime, timeSinceLastBreak,
                 eventVars, configVars, draftVars, showAnimalMessage,
                 lastBreakDeclineTime, isDoubleTapRunning, studyWasAutoPaused,
                 autoStartEnabled, now>>

CompleteStudy(b, maxDone) ==
  /\ Room(b, "completeStudy")
  /\ Len(completedStudies) < maxDone
  /\ IF selectedModality = Null
       THEN /\ Log(b, "completeStudy", "rejected", "Please select a modality")
            /\ UNCHANGED <<isRunning, isPaused, isInterstitialRunning, currentTime,
                           selectionVars, metricVars, showBreakPrompt,
                           breakPromptHours>>
       ELSE IF currentTime = 0 /\ ~isRunning
         THEN /\ Log(b, "completeStudy", "rejected",
                     "Please start the timer by clicking Par Time before completing the study")
              /\ UNCHANGED <<isRunning, isPaused, isInterstitialRunning, currentTime,
                             selectionVars, metricVars, showBreakPrompt,
                             breakPromptHours>>
         ELSE LET variance    == currentTime - currentParTime
                  newTotalRVU == DAdd(totalRVU, currentStudyRVU)
                  updated     == Append(completedStudies,
                                        [timestamp |-> now, rvu |-> currentStudyRVU])
                  prompt      == ShouldPromptBreak(timeSinceLastBreak, lastBreakDeclineTime)
              IN  /\ isRunning' = FALSE
                  /\ currentStreak' = StreakAfter(currentStreak, variance)
                  /\ lastStudy' = [has |-> TRUE, variance |-> variance,
                                   rvu |-> currentStudyRVU,
                                   streakBefore |-> currentStreak]
                  /\ cumulativeVariance' = cumulativeVariance + variance
                  /\ totalRVU' = newTotalRVU
                  /\ rvuPerHour' = RateAfterComplete(newTotalRVU)
                  /\ completedStudies' = updated
                  /\ rollingRVU' = RollingRvu(updated, now)
                  /\ studiesCompleted' = studiesCompleted + 1
                  /\ isInterstitialRunning' = TRUE
                  /\ currentTime' = 0
                  /\ isPaused' = FALSE
                  /\ selectedModality' = Null
                  /\ selectedComplications' = <<>>
                  /\ IF prompt
                       THEN /\ breakPromptHours' = timeSinceLastBreak \div 3600
                            /\ showBreakPrompt' = TRUE
                       ELSE UNCHANGED <<breakPromptHours, showBreakPrompt>>
                  /\ hist' = [op |-> "completeStudy", n |-> Charge(b, "completeStudy"), branch |-> "done", alert |-> "",
                              auto |-> FALSE, prompted |-> prompt, resumed |-> "no",
                              pre |-> MetricsNow, intr |-> Touched]
  /\ UNCHANGED <<isAdminTimeRunning, isCommsTimeRunning, isBreakTimeRunning,
                 isSessionTimeRunning, interstitialOffPending,
                 sessionTime, interstitialTime, adminTime, commsTime, breakTime,
                 doubleTapTime, timeSinceLastBreak,
                 eventVars, configVars, draftVars, showAnimalMessage,
                 lastBreakDeclineTime, isDoubleTapRunning, studyWasAutoPaused,
                 autoStartEnabled, now>>

\* a faulty variant: the undo also removes the record of the completion
UndoLastStudyDropsRecord(b) ==
  /\ Room(b, "undoLastStudy")
  /\ IF ~lastStudy.has
       THEN /\ Log(b, "undoLastStudy", "rejected", "No study to undo")
            /\ UNCHANGED metricVars
       ELSE LET newTotalRVU == TotalAfterUndo(totalRVU, lastStudy.rvu)
            IN  /\ cumulativeVariance' = cumulativeVariance - lastStudy.variance
                /\ currentStreak' = lastStudy.streakBefore
                /\ totalRVU' = newTotalRVU
                /\ rvuPerHour' = RateAfterUndo(newTotalRVU)
                /\ studiesCompleted' = studiesCompleted - 1
                /\ lastStudy' = NoLastStudy
                /\ Log(b, "undoLastStudy", "done", "")
                /\ completedStudies'
                     = SubSeq(completedStudies, 1, Len(completedStudies) - 1)
                /\ UNCHANGED rollingRVU
  /\ UNCHANGED <<startVars, counterVars, eventVars, selectionVars, configVars,
                 draftVars, promptVars, isDoubleTapRunning, studyWasAutoPaused,
                 autoStartEnabled, now>>

UndoLastStudy(b) ==
  /\ Room(b, "undoLastStudy")
  /\ IF ~lastStudy.has
       THEN /\ Log(b, "undoLastStudy", "rejected", "No study to undo")
            /\ UNCHANGED metricVars
       ELSE LET newTotalRVU == TotalAfterUndo(totalRVU, lastStudy.rvu)
            IN  /\ cumulativeVariance' = cumulativeVariance - lastStudy.variance
                /\ currentStreak' = lastStudy.streakBefore
                /\ totalRVU' = newTotalRVU
                /\ rvuPerHour' = RateAfterUndo(newTotalRVU)
                /\ studiesCompleted' = studiesCompleted - 1
                /\ lastStudy' = NoLastStudy
                /\ Log(b, "undoLastStudy", "done", "")
                /\ UNCHANGED <<completedStudies, rollingRVU>>
  /\ UNCHANGED <<startVars, counterVars, eventVars, selectionVars, configVars,
                 draftVars, promptVars, isDoubleTapRunning, studyWasAutoPaused,
                 autoStartEnabled, now>>

(***************************************************************************)
(* toggleAdminTime, toggleCommsTime and the Interstitial tile              *)
(***************************************************************************)
\* const isStudyInProgress = selectedModality !== null && isRunning
StudyInProgress == selectedModality # Null /\ isRunning

\* history of a start that may auto-pause the running study
LogStart(b, op, by) ==
  hist' = [op |-> op, n |-> Charge(b, op), branch |-> "start", alert |-> "", auto |-> FALSE,
           prompted |-> FALSE, resumed |-> "no", pre |-> NoSnapshot,
           intr |-> IF StudyInProgress
                      THEN [has |-> TRUE, by |-> by,
                            modality |-> selectedModality,
                            complications |-> selectedComplications,
                            time |-> currentTime, clean |-> TRUE]
                      ELSE Touched]

\* history of a stop that may resume the auto-paused study
LogStop(b, op, by) ==
  hist' = [op |-> op, n |-> Charge(b, op), branch |-> "stop", alert |-> "", auto |-> FALSE,
           prompted |-> FALSE,
           resumed |-> IF ~studyWasAutoPaused THEN "no"
                       ELSE IF hist.intr.clean /\ hist.intr.by = by
                              THEN "clean" ELSE "dirty",
           pre |-> NoSnapshot,
           intr |-> IF studyWasAutoPaused THEN NoInterrupt ELSE Touched]

\* the auto-pause of a start branch
AutoPause ==
  IF StudyInProgress
    THEN /\ isRunning' = FALSE
         /\ isPaused' = TRUE
         /\ studyWasAutoPaused' = TRUE
    ELSE UNCHANGED <<isRunning, isPaused, studyWasAutoPaused>>

\* a faulty variant of the auto-resume: paused is left set
AutoResumeKeepsPaused ==
  IF studyWasAutoPaused
    THEN /\ isRunning' = TRUE
         /\ studyWasAutoPaused' = FALSE
         /\ UNCHANGED isPaused
    ELSE UNCHANGED <<isRunning, isPaused, studyWasAutoPaused>>

\* the auto-resume of a stop branch
AutoResume ==
  IF studyWasAutoPaused
    THEN /\ isRunning' = TRUE
         /\ isPaused' = FALSE
         /\ studyWasAutoPaused' = FALSE
    ELSE UNCHANGED <<isRunning, isPaused, studyWasAutoPaused>>

\* a faulty variant: stopping Admin time is counted as an event as well
ToggleAdminTimeCountsStops(b) ==
  /\ Room(b, "toggleAdminTime")
  /\ IF ~isAdminTimeRunning
       THEN /\ isAdminTimeRunning' = TRUE
            /\ isInterstitialRunning' = FALSE
            /\ isCommsTimeRunning' = FALSE
            /\ adminEvents' = adminEvents + 1
            /\ AutoPause
            /\ LogStart(b, "toggleAdminTime", "admin")
       ELSE /\ isAdminTimeRunning' = FALSE
            /\ isInterstitialRunning' = TRUE
            /\ adminEvents' = adminEvents + 1
            /\ AutoResume
            /\ LogStop(b, "toggleAdminTime", "admin")
            /\ UNCHANGED isCommsTimeRunning
  /\ UNCHANGED <<isBreakTimeRunning, isSessionTimeRunning, interstitialOffPending,
                 counterVars, commsEvents, doubleTapEvents, breaksTaken,
                 selectionVars, configVars, metricVars, draftVars, promptVars,
                 isDoubleTapRunning, autoStartEnabled, now>>

ToggleAdminTime(b) ==
  /\ Room(b, "toggleAdminTime")
  /\ IF ~isAdminTimeRunning
       THEN /\ isAdminTimeRunning' = TRUE
            /\ isInterstitialRunning' = FALSE
            /\ isCommsTimeRunning' = FALSE
            /\ adminEvents' = adminEvents + 1
            /\ AutoPause
            /\ LogStart(b, "toggleAdminTime", "admin")
       ELSE /\ isAdminTimeRunning' = FALSE
            /\ isInterstitialRunning' = TRUE
            /\ AutoResume
            /\ LogStop(b, "toggleAdminTime", "admin")
            /\ UNCHANGED <<isCommsTimeRunning, adminEvents>>
  /\ UNCHANGED <<isBreakTimeRunning, isSessionTimeRunning, interstitialOffPending,
                 counterVars, commsEvents, doubleTapEvents, breaksTaken,
                 selectionVars, configVars, metricVars, draftVars, promptVars,
                 isDoubleTapRunning, autoStartEnabled, now>>

\* a faulty variant: starting Comms time leaves Admin time running
ToggleCommsTimeKeepsAdmin(b) ==
  /\ Room(b, "toggleCommsTime")
  /\ IF ~isCommsTimeRunning
       THEN /\ isCommsTimeRunning' = TRUE
            /\ isInterstitialRunning' = FALSE
            /\ commsEvents' = commsEvents + 1
            /\ AutoPause
            /\ LogStart(b, "toggleCommsTime", "comms")
            /\ UNCHANGED isAdminTimeRunning
       ELSE /\ isCommsTimeRunning' = FALSE
            /\ isInterstitialRunning' = TRUE
            /\ AutoResume
            /\ LogStop(b, "toggleCommsTime", "comms")
            /\ UNCHANGED <<isAdminTimeRunning, commsEvents>>
  /\ UNCHANGED <<isBreakTimeRunning, isSessionTimeRunning, interstitialOffPending,
                 counterVars, adminEvents, doubleTapEvents, breaksTaken,
                 selectionVars, configVars, metricVars, draftVars, promptVars,
                 isDoubleTapRunning, autoStartEnabled, now>>

ToggleCommsTime(b) ==
  /\ Room(b, "toggleCommsTime")
  /\ IF ~isCommsTimeRunning
       THEN /\ isCommsTimeRunning' = TRUE
            /\ isInterstitialRunning' = FALSE
            /\ isAdminTimeRunning' = FALSE
            /\ commsEvents' = commsEvents + 1
            /\ AutoPause
            /\ LogStart(b, "toggleCommsTime", "comms")
       ELSE /\ isCommsTimeRunning' = FALSE
            /\ isInterstitialRunning' = TRUE
            /\ AutoResume
            /\ LogStop(b, "toggleCommsTime", "comms")
            /\ UNCHANGED <<isAdminTimeRunning, commsEvents>>
  /\ UNCHANGED <<isBreakTimeRunning, isSessionTimeRunning, interstitialOffPending,
                 counterVars, adminEvents, doubleTapEvents, breaksTaken,
                 selectionVars, configVars, metricVars, draftVars, promptVars,
                 isDoubleTapRunning, autoStartEnabled, now>>

\* the onClick of the Interstitial tile
InterstitialTileClick(b) ==
  /\ Room(b, "interstitialTile")
  /\ IF isAdminTimeRunning \/ isCommsTimeRunning
       THEN /\ isAdminTimeRunning' = FALSE
            /\ isCommsTimeRunning' = FALSE
            /\ isInterstitialRunning' = TRUE
            /\ Log(b, "interstitialTile", "switch", "")
       ELSE /\ UNCHANGED <<isAdminTimeRunning, isCommsTimeRunning,
                           isInterstitialRunning>>
            /\ Log(b, "interstitialTile", "none", "")
  /\ UNCHANGED <<isRunning, isPaused, isBreakTimeRunning, isSessionTimeRunning,
                 interstitialOffPending, counterVars, eventVars, selectionVars,
                 configVars, metricVars, draftVars, promptVars,
                 isDoubleTapRunning, studyWasAutoPaused, autoStartEnabled, now>>

(***************************************************************************)
(* toggleBreakTime, the break prompt, toggleDoubleTap                      *)
(***************************************************************************)
\* a faulty variant: starting a break leaves the decline mark as it is
BreakToggleKeepsDeclineMark ==
  IF ~isBreakTimeRunning
    THEN /\ isBreakTimeRunning' = TRUE
         /\ isInterstitialRunning' = FALSE
         /\ isAdminTimeRunning' = FALSE
         /\ isCommsTimeRunning' = FALSE
         /\ timeSinceLastBreak' = 0
         /\ lastBreakDeclineTime' = lastBreakDeclineTime
         /\ breaksTaken' = breaksTaken + 1
    ELSE /\ isBreakTimeRunning' = FALSE
         /\ isInterstitialRunning' = TRUE
         /\ UNCHANGED <<isAdminTimeRunning, isCommsTimeRunning,
                        timeSinceLastBreak, lastBreakDeclineTime, breaksTaken>>

\* the body of toggleBreakTime: it is the Break button's handler and is
\* called by the prompt's YES button
BreakToggle ==
  IF ~isBreakTimeRunning
    THEN /\ isBreakTimeRunning' = TRUE
         /\ isInterstitialRunning' = FALSE
         /\ isAdminTimeRunning' = FALSE
         /\ isCommsTimeRunning' = FALSE
         /\ timeSinceLastBreak' = 0
         /\ lastBreakDeclineTime' = 0
         /\ breaksTaken' = breaksTaken + 1
    ELSE /\ isBreakTimeRunning' = FALSE
         /\ isInterstitialRunning' = TRUE
         /\ UNCHANGED <<isAdminTimeRunning, isCommsTimeRunning,
                        timeSinceLastBreak, lastBreakDeclineTime, breaksTaken>>

BreakRest ==
  <<isRunning, isPaused, isSessionTimeRunning, interstitialOffPending,
    currentTime, sessionTime, interstitialTime, adminTime, commsTime, breakTime,
    doubleTapTime, adminEvents, commsEvents, doubleTapEvents,
    selectionVars, configVars, metricVars, draftVars, breakPromptHours,
    isDoubleTapRunning, studyWasAutoPaused, autoStartEnabled, now>>

ToggleBreakTime(b) ==
  /\ Room(b, "toggleBreakTime")
  /\ BreakToggle
  /\ Log(b, "toggleBreakTime", IF isBreakTimeRunning THEN "stop" ELSE "start", "")
  /\ UNCHANGED <<BreakRest, showBreakPrompt, showAnimalMessage>>

\* the YES button of the break prompt
AcceptBreak(b) ==
  /\ Room(b, "acceptBreak")
  /\ showBreakPrompt
  /\ showBreakPrompt' = FALSE
  /\ BreakToggle
  /\ Log(b, "acceptBreak", IF isBreakTimeRunning THEN "stop" ELSE "start", "")
  /\ UNCHANGED <<BreakRest, showAnimalMessage>>

\* a faulty variant: declining the prompt puts the user on a break anyway
DeclineBreakForcesBreak(b) ==
  /\ Room(b, "declineBreak")
  /\ showBreakPrompt
  /\ showBreakPrompt' = FALSE
  /\ showAnimalMessage' = TRUE
  /\ lastBreakDeclineTime' = timeSinceLastBreak
  /\ isBreakTimeRunning' = TRUE
  /\ Log(b, "declineBreak", "", "")
  /\ UNCHANGED <<isRunning, isPaused, isInterstitialRunning, isAdminTimeRunning,
                 isCommsTimeRunning, isSessionTimeRunning, interstitialOffPending,
                 counterVars, eventVars, selectionVars, configVars,
                 metricVars, draftVars, breakPromptHours, isDoubleTapRunning,
                 studyWasAutoPaused, autoStartEnabled, now>>

\* the NO THANKS button of the break prompt
DeclineBreak(b) ==
  /\ Room(b, "declineBreak")
  /\ showBreakPrompt
  /\ showBreakPrompt' = FALSE
  /\ showAnimalMessage' = TRUE
  /\ lastBreakDeclineTime' = timeSinceLastBreak
  /\ Log(b, "declineBreak", "", "")
  /\ UNCHANGED <<startVars, counterVars, eventVars, selectionVars, configVars,
                 metricVars, draftVars, breakPromptHours, isDoubleTapRunning,
                 studyWasAutoPaused, autoStartEnabled, now>>

\* the Close button of the message shown after declining
CloseAnimalMessage(b) ==
  /\ Room(b, "closeAnimalMessage")
  /\ showAnimalMessage
  /\ showAnimalMessage' = FALSE
  /\ Log(b, "closeAnimalMessage", "", "")
  /\ UNCHANGED <<startVars, counterVars, eventVars, selectionVars, configVars,
                 metricVars, draftVars, showBreakPrompt, breakPromptHours,
                 lastBreakDeclineTime, isDoubleTapRunning, studyWasAutoPaused,
                 autoStartEnabled, now>>

ToggleDoubleTap(b) ==
  /\ Room(b, "toggleDoubleTap")
  /\ IF (selectedModality # Null \/ currentTime > 0) /\ ~isDoubleTapRunning
       THEN /\ Log(b, "toggleDoubleTap", "rejected", "")
            /\ UNCHANGED <<isDoubleTapRunning, isInterstitialRunning,
                           doubleTapEvents, doubleTapTime>>
       ELSE IF ~isDoubleTapRunning
         THEN /\ isDoubleTapRunning' = TRUE
              /\ isInterstitialRunning' = FALSE
              /\ doubleTapEvents' = doubleTapEvents + 1
              /\ Log(b, "toggleDoubleTap", "start", "")
              /\ UNCHANGED doubleTapTime
         ELSE /\ isDoubleTapRunning' = FALSE
              /\ isInterstitialRunning' = TRUE
              /\ doubleTapTime' = 0
              /\ Log(b, "toggleDoubleTap", "stop", "")
              /\ UNCHANGED doubleTapEvents
  /\ UNCHANGED <<isRunning, isPaused, isAdminTimeRunning, isCommsTimeRunning,
                 isBreakTimeRunning, isSessionTimeRunning, interstitialOffPending,
                 currentTime, sessionTime, interstitialTime, adminTime, commsTime,
                 breakTime, timeSinceLastBreak, adminEvents, commsEvents,
                 breaksTaken, selectionVars, configVars, metricVars, draftVars,
                 promptVars, studyWasAutoPaused, autoStartEnabled, now>>

(***************************************************************************)
(* toggleDraft                                                             *)
(***************************************************************************)
\* a faulty variant: the resume restores the selection but not the elapsed seconds
ToggleDraftLosesElapsed(b) ==
  /\ Room(b, "toggleDraft")
  /\ IF ~isDraftMode
       THEN IF selectedModality = Null
              THEN /\ Log(b, "toggleDraft", "enterRejected",
                          "Please select a modality before using Draft mode")
                   /\ UNCHANGED <<startVars, currentTime, selectionVars, draftVars>>
              ELSE /\ isRunning' = FALSE
                   /\ draftStudy' = [has |-> TRUE, modality |-> selectedModality,
                                     complications |-> selectedComplications,
                                     currentTime |-> currentTime,
                                     parTime |-> currentParTime]
                   /\ selectedModality' = Null
                   /\ selectedComplications' = <<>>
                   /\ currentTime' = 0
                   /\ isInterstitialRunning' = TRUE
                   /\ isDraftMode' = TRUE
                   /\ Log(b, "toggleDraft", "enter", "")
                   /\ UNCHANGED <<isPaused, isAdminTimeRunning, isCommsTimeRunning,
                                  isBreakTimeRunning, isSessionTimeRunning,
                                  interstitialOffPending>>
       ELSE IF ~draftStudy.has
              THEN /\ Log(b, "toggleDraft", "resumeRejected", "No draft study to restore")
                   /\ UNCHANGED <<startVars, currentTime, selectionVars, draftVars>>
              ELSE IF isRunning
                THEN /\ Log(b, "toggleDraft", "resumeRejected",
                            "Please stop the current study timer before resuming the draft")
                     /\ UNCHANGED <<startVars, currentTime, selectionVars, draftVars>>
                ELSE LET fires == AutoStartFires(draftStudy.modality # selectedModality,
                                                 autoStartEnabled, draftStudy.modality,
                                                 FALSE)
                     IN  /\ selectedModality' = draftStudy.modality
                         /\ selectedComplications' = draftStudy.complications
                         /\ currentTime' = 0
                         /\ isDraftMode' = FALSE
                         /\ draftStudy' = NoDraft
                         /\ IF fires THEN StartTimer ELSE UNCHANGED startVars
                         /\ LogAuto(b, "toggleDraft", "resume", fires)
  /\ UNCHANGED <<sessionTime, interstitialTime, adminTime, commsTime, breakTime,
                 doubleTapTime, timeSinceLastBreak, eventVars, configVars,
                 metricVars, promptVars, isDoubleTapRunning, studyWasAutoPaused,
                 autoStartEnabled, now>>

\* a faulty variant: putting the study aside counts it as completed
ToggleDraftCountsStudy(b) ==
  /\ Room(b, "toggleDraft")
  /\ IF ~isDraftMode
       THEN IF selectedModality = Null
              THEN /\ Log(b, "toggleDraft", "enterRejected",
                          "Please select a modality before using Draft mode")
                   /\ UNCHANGED <<startVars, currentTime, selectionVars, draftVars>>
              ELSE /\ isRunning' = FALSE
                   /\ draftStudy' = [has |-> TRUE, modality |-> selectedModality,
                                     complications |-> selectedComplications,
                                     currentTime |-> currentTime,
                                     parTime |-> currentParTime]
                   /\ selectedModality' = Null
                   /\ selectedComplications' = <<>>
                   /\ currentTime' = 0
                   /\ isInterstitialRunning' = TRUE
                   /\ isDraftMode' = TRUE
                   /\ Log(b, "toggleDraft", "enter", "")
                   /\ UNCHANGED <<isPaused, isAdminTimeRunning, isCommsTimeRunning,
                                  isBreakTimeRunning, isSessionTimeRunning,
                                  interstitialOffPending>>
       ELSE IF ~draftStudy.has
              THEN /\ Log(b, "toggleDraft", "resumeRejected", "No draft study to restore")
                   /\ UNCHANGED <<startVars, currentTime, selectionVars, draftVars>>
              ELSE IF isRunning
                THEN /\ Log(b, "toggleDraft", "resumeRejected",
                            "Please stop the current study timer before resuming the draft")
                     /\ UNCHANGED <<startVars, currentTime, selectionVars, draftVars>>
                ELSE LET fires == AutoStartFires(draftStudy.modality # selectedModality,
                                                 autoStartEnabled, draftStudy.modality,
                                                 FALSE)
                     IN  /\ selectedModality' = draftStudy.modality
                         /\ selectedComplications' = draftStudy.complications
                         /\ currentTime' = draftStudy.currentTime
                         /\ isDraftMode' = FALSE
                         /\ draftStudy' = NoDraft
                         /\ IF fires THEN StartTimer ELSE UNCHANGED startVars
                         /\ LogAuto(b, "toggleDraft", "resume", fires)
  /\ studiesCompleted' = IF ~isDraftMode /\ selectedModality # Null
                          THEN studiesCompleted + 1 ELSE studiesCompleted
  /\ UNCHANGED <<sessionTime, interstitialTime, adminTime, commsTime, breakTime,
                 doubleTapTime, timeSinceLastBreak, eventVars, configVars,
                 cumulativeVariance, totalRVU, rvuPerHour, completedStudies,
                 rollingRVU, lastStudy, currentStreak,
                 promptVars, isDoubleTapRunning, studyWasAutoPaused,
                 autoStartEnabled, now>>

\* a faulty variant: with a study selected the button stores it even when
\* the slot already holds one
ToggleDraftOverwrites(b) ==
  /\ Room(b, "toggleDraft")
  /\ IF ~isDraftMode \/ selectedModality # Null
       THEN IF selectedModality = Null
              THEN /\ Log(b, "toggleDraft", "enterRejected",
                          "Please select a modality before using Draft mode")
                   /\ UNCHANGED <<startVars, currentTime, selectionVars, draftVars>>
              ELSE /\ isRunning' = FALSE
                   /\ draftStudy' = [has |-> TRUE, modality |-> selectedModality,
                                     complications |-> selectedComplications,
                                     currentTime |-> currentTime,
                                     parTime |-> currentParTime]
                   /\ selectedModality' = Null
                   /\ selectedComplications' = <<>>
                   /\ currentTime' = 0
                   /\ isInterstitialRunning' = TRUE
                   /\ isDraftMode' = TRUE
                   /\ Log(b, "toggleDraft", "enter", "")
                   /\ UNCHANGED <<isPaused, isAdminTimeRunning, isCommsTimeRunning,
                                  isBreakTimeRunning, isSessionTimeRunning,
                                  interstitialOffPending>>
       ELSE IF ~draftStudy.has
              THEN /\ Log(b, "toggleDraft", "resumeRejected", "No draft study to restore")
                   /\ UNCHANGED <<startVars, currentTime, selectionVars, draftVars>>
              ELSE IF isRunning
                THEN /\ Log(b, "toggleDraft", "resumeRejected",
                            "Please stop the current study timer before resuming the draft")
                     /\ UNCHANGED <<startVars, currentTime, selectionVars, draftVars>>
                ELSE LET fires == AutoStartFires(draftStudy.modality # selectedModality,
                                                 autoStartEnabled, draftStudy.modality,
                                                 FALSE)
                     IN  /\ selectedModality' = draftStudy.modality
                         /\ selectedComplications' = draftStudy.complications
                         /\ currentTime' = draftStudy.currentTime
                         /\ isDraftMode' = FALSE
                         /\ draftStudy' = NoDraft
                         /\ IF fires THEN StartTimer ELSE UNCHANGED startVars
                         /\ LogAuto(b, "toggleDraft", "resume", fires)
  /\ UNCHANGED <<sessionTime, interstitialTime, adminTime, commsTime, breakTime,
                 doubleTapTime, timeSinceLastBreak, eventVars, configVars,
                 metricVars, promptVars, isDoubleTapRunning, studyWasAutoPaused,
                 autoStartEnabled, now>>

ToggleDraft(b) ==
  /\ Room(b, "toggleDraft")
  /\ IF ~isDraftMode
       THEN IF selectedModality = Null
              THEN /\ Log(b, "toggleDraft", "enterRejected",
                          "Please select a modality before using Draft mode")
                   /\ UNCHANGED <<startVars, currentTime, selectionVars, draftVars>>
              ELSE /\ isRunning' = FALSE
                   /\ draftStudy' = [has |-> TRUE, modality |-> selectedModality,
                                     complications |-> selectedComplications,
                                     currentTime |-> currentTime,
                                     parTime |-> currentParTime]
                   /\ selectedModality' = Null
                   /\ selectedComplications' = <<>>
                   /\ currentTime' = 0
                   /\ isInterstitialRunning' = TRUE
                   /\ isDraftMode' = TRUE
                   /\ Log(b, "toggleDraft", "enter", "")
                   /\ UNCHANGED <<isPaused, isAdminTimeRunning, isCommsTimeRunning,
                                  isBreakTimeRunning, isSessionTimeRunning,
                                  interstitialOffPending>>
       ELSE IF ~draftStudy.has
              THEN /\ Log(b, "toggleDraft", "resumeRejected", "No draft study to restore")
                   /\ UNCHANGED <<startVars, currentTime, selectionVars, draftVars>>
              ELSE IF isRunning
                THEN /\ Log(b, "toggleDraft", "resumeRejected",
                            "Please stop the current study timer before resuming the draft")
                     /\ UNCHANGED <<startVars, currentTime, selectionVars, draftVars>>
                ELSE LET fires == AutoStartFires(draftStudy.modality # selectedModality,
                                                 autoStartEnabled, draftStudy.modality,
                                                 FALSE)
                     IN  /\ selectedModality' = draftStudy.modality
                         /\ selectedComplications' = draftStudy.complications
                         /\ currentTime' = draftStudy.currentTime
                         /\ isDraftMode' = FALSE
                         /\ draftStudy' = NoDraft
                         /\ IF fires THEN StartTimer ELSE UNCHANGED startVars
                         /\ LogAuto(b, "toggleDraft", "resume", fires)
  /\ UNCHANGED <<sessionTime, interstitialTime, adminTime, commsTime, breakTime,
                 doubleTapTime, timeSinceLastBreak, eventVars, configVars,
                 metricVars, promptVars, isDoubleTapRunning, studyWasAutoPaused,
                 autoStartEnabled, now>>

(***************************************************************************)
(* Settings: updateParTime and updateRVUValue                              *)
(***************************************************************************)
\* { ...prev, [key]: v }
WithKey(f, key, v) == [k \in DOMAIN f \cup {key} |-> IF k = key THEN v ELSE f[k]]

\* parseInt(value) || 0
IntOrZero(value) == LET r == ParseInt(value) IN IF r.nan THEN 0 ELSE r.val

\* parseFloat(value) || 0
FloatOrZero(value) == LET r == ParseFloat(value) IN IF r.nan THEN DZero ELSE r.val

updateParTime(pt, key, value) == WithKey(pt, key, IntOrZero(value))

updateRVUValue(rv, key, value, modality) ==
  IF modality # Null
    THEN WithKey(rv, key,
                 RvuObj(WithKey(IF key \in DOMAIN rv /\ rv[key].isObj
                                  THEN rv[key].sub ELSE <<>>,
                                modality, FloatOrZero(value))))
    ELSE WithKey(rv, key, RvuNum(FloatOrZero(value)))

UpdateParTime(b, key, value) ==
  /\ Room(b, "updateParTime")
  /\ parTimes' = updateParTime(parTimes, key, value)
  /\ Log(b, "updateParTime", "", "")
  /\ UNCHANGED <<startVars, counterVars, eventVars, selectionVars, rvuValues,
                 metricVars, draftVars, promptVars, isDoubleTapRunning,
                 studyWasAutoPaused, autoStartEnabled, now>>

UpdateRVUValue(b, key, value, modality) ==
  /\ Room(b, "updateRVUValue")
  /\ rvuValues' = updateRVUValue(rvuValues, key, value, modality)
  /\ Log(b, "updateRVUValue", "", "")
  /\ UNCHANGED <<startVars, counterVars, eventVars, selectionVars, parTimes,
                 metricVars, draftVars, promptVars, isDoubleTapRunning,
                 studyWasAutoPaused, autoStartEnabled, now>>

(***************************************************************************)
(* exportSettings and importSettings: the settings as a CSV text.  A text  *)
(* is a sequence of characters, as the strings of the settings inputs are. *)
(***************************************************************************)
\* the characters of the keys of the settings; "" is the key that a row
\* with an empty key field writes
Chars(k) ==
  CASE k = "XR" -> <<"X", "R">>
    [] k = "FL" -> <<"F", "L">>
    [] k = "CT" -> <<"C", "T">>
    [] k = "US" -> <<"U", "S">>
    [] k = "MR" -> <<"M", "R">>
    [] k = "NM" -> <<"N", "M">>
    [] k = "MA" -> <<"M", "A">>
    [] k = "PET-CT" -> <<"P", "E", "T", "-", "C", "T">>
    [] k = "Cancer Follow" -> <<"C", "a", "n", "c", "e", "r", " ", "F", "o", "l", "l", "o", "w">>
    [] k = "+1 Section" -> <<"+", "1", " ", "S", "e", "c", "t", "i", "o", "n">>
    [] k = "+2 Section" -> <<"+", "2", " ", "S", "e", "c", "t", "i", "o", "n">>
    [] k = "Multiple Priors" -> <<"M", "u", "l", "t", "i", "p", "l", "e", " ", "P", "r", "i", "o", "r", "s">>
    [] k = "Age >70" -> <<"A", "g", "e", " ", ">", "7", "0">>
    [] k = "Complex Hx" -> <<"C", "o", "m", "p", "l", "e", "x", " ", "H", "x">>
    [] k = "Prior Surg Hx" -> <<"P", "r", "i", "o", "r", " ", "S", "u", "r", "g", " ", "H", "x">>
    [] k = "CTA" -> <<"C", "T", "A">>
    [] k = "Bilateral" -> <<"B", "i", "l", "a", "t", "e", "r", "a", "l">>
    [] k = "Vascular" -> <<"V", "a", "s", "c", "u", "l", "a", "r">>
    [] k = "?" -> <<"?">>
    [] OTHER -> <<>>

\* the key spelled by the characters; "" for no characters, and every other
\* spelling that is no key of the defaults stands for the one key "?"
KeyOf(cs) ==
  IF cs = <<>> THEN ""
  ELSE IF \E k \in modalities \cup complications : Chars(k) = cs
         THEN CHOOSE k \in modalities \cup complications : Chars(k) = cs
         ELSE "?"

\* the order in which Object.entries lists the keys: the order of the
\* default literals, then the keys added since
parTimeKeys ==
  <<"XR", "FL", "CT", "US", "MR", "NM", "MA", "PET-CT",
    "Cancer Follow", "+1 Section", "+2 Section", "Multiple Priors", "Age >70",
    "Complex Hx", "Prior Surg Hx", "CTA", "Bilateral", "Vascular", "", "?">>

rvuKeys ==
  <<"XR", "FL", "CT", "US", "MR", "NM", "MA", "PET-CT", "+1 Section", "+2 Section",
    "CTA", "", "?">>

modalityKeys == <<"CT", "US", "XR", "FL", "MR", "NM", "MA", "PET-CT", "", "?">>

headerRow == <<"S", "e", "t", "t", "i", "n", "g", " ", "T", "y", "p", "e", ",", "K", "e", "y", ",", "V", "a", "l", "u", "e", ",", "M", "o", "d", "a", "l", "i", "t", "y">>

parTimeTag == <<"P", "a", "r", " ", "T", "i", "m", "e">>

rvuTag == <<"R", "V", "U">>

RECURSIVE NatChars(_)
\* the decimal digits of a natural number
NatChars(n) ==
  LET d == CHOOSE c \in Digits : DigitVal(c) = n % 10
  IN  IF n < 10 THEN <<d>> ELSE Append(NatChars(n \div 10), d)

\* `${value}` of an integer
IntChars(n) == IF n < 0 THEN <<"-">> \o NatChars(0 - n) ELSE NatChars(n)

\* `${value}` of a double, on the doubles of the model: the shortest decimal
\* that reads back as the same double
FloatChars(d) ==
  CASE d = DZero -> <<"0">>
    [] d = D_0_2 -> <<"0", ".", "2">> [] d = D_0_3 -> <<"0", ".", "3">>
    [] d = D_0_4 -> <<"0", ".", "4">> [] d = D_0_5 -> <<"0", ".", "5">>
    [] d = D_0_6 -> <<"0", ".", "6">> [] d = D_0_7 -> <<"0", ".", "7">>
    [] d = D_1_0 -> <<"1">>           [] d = D_1_3 -> <<"1", ".", "3">>
    [] d = D_1_5 -> <<"1", ".", "5">> [] d = D_2_0 -> <<"2">>
    [] d = D_2_4 -> <<"2", ".", "4">>
    [] d = DNeg(D_0_5) -> <<"-", "0", ".", "5">>

Quoted(cs) == <<"\"">> \o cs \o <<"\"">>

\* `Par Time,"${key}",${value},`
parTimeRow(key, value) ==
  parTimeTag \o <<",">> \o Quoted(Chars(key)) \o <<",">> \o IntChars(value) \o <<",">>

\* `RVU,"${key}",${value},` and `RVU,"${key}",${rvu},"${modality}"`
rvuRow(key, value, modality) ==
  rvuTag \o <<",">> \o Quoted(Chars(key)) \o <<",">> \o FloatChars(value) \o <<",">>
    \o (IF modality = Null THEN <<>> ELSE Quoted(Chars(modality)))

RECURSIVE parTimeRows(_, _)
\* the forEach over Object.entries(parTimes), from position i of the key order
parTimeRows(pt, i) ==
  IF i > Len(parTimeKeys) THEN <<>>
  ELSE (IF parTimeKeys[i] \in DOMAIN pt
          THEN <<parTimeRow(parTimeKeys[i], pt[parTimeKeys[i]])>> ELSE <<>>)
         \o parTimeRows(pt, i + 1)

RECURSIVE rvuSubRows(_, _, _)
\* the inner forEach over the entries of a per-modality object
rvuSubRows(key, sub, j) ==
  IF j > Len(modalityKeys) THEN <<>>
  ELSE (IF modalityKeys[j] \in DOMAIN sub
          THEN <<rvuRow(key, sub[modalityKeys[j]], modalityKeys[j])>> ELSE <<>>)
         \o rvuSubRows(key, sub, j + 1)

RECURSIVE rvuRows(_, _)
\* the forEach over Object.entries(rvuValues)
rvuRows(rv, i) ==
  IF i > Len(rvuKeys) THEN <<>>
  ELSE (IF rvuKeys[i] \notin DOMAIN rv THEN <<>>
        ELSE IF rv[rvuKeys[i]].isObj THEN rvuSubRows(rvuKeys[i], rv[rvuKeys[i]].sub, 1)
        ELSE <<rvuRow(rvuKeys[i], rv[rvuKeys[i]].num, Null)>>)
         \o rvuRows(rv, i + 1)

RECURSIVE Join(_)
\* csvRows.join('\n')
Join(rows) ==
  IF rows = <<>> THEN <<>>
  ELSE IF Len(rows) = 1 THEN rows[1]
  ELSE rows[1] \o <<"\n">> \o Join(Tail(rows))

\* the text that exportSettings puts in the file
exportSettings(pt, rv) == Join(<<headerRow>> \o parTimeRows(pt, 1) \o rvuRows(rv, 1))

\* text.split('\n'): the pieces between the line breaks, in order
Split(text) ==
  LET breaks    == {i \in 1..Len(text) : text[i] = "\n"}
      before(p) == Cardinality({q \in breaks : q < p})
      break(k)  == CHOOSE p \in breaks : before(p) = k - 1
      n         == Cardinality(breaks)
  IN  [k \in 1..(n + 1) |->
         SubSeq(text, IF k = 1 THEN 1 ELSE break(k - 1) + 1,
                      IF k = n + 1 THEN Len(text) ELSE break(k) - 1)]

WhiteSpace == {" ", "\t", "\r", "\n"}

RECURSIVE Trim(_)
\* s.trim()
Trim(s) ==
  IF s = <<>> THEN s
  ELSE IF s[1] \in WhiteSpace THEN Trim(Tail(s))
  ELSE IF s[Len(s)] \in WhiteSpace THEN Trim(SubSeq(s, 1, Len(s) - 1))
  ELSE s

RECURSIVE Upto(_, _, _)
\* the first position from i on that holds one of the stop characters, or
\* Len(s) + 1
Upto(s, i, stops) ==
  IF i > Len(s) \/ s[i] \in stops THEN i ELSE Upto(s, i + 1, stops)

RECURSIVE MatchAll(_, _)
\* line.match(/(?:"([^"]*)"|([^,]*))/g) from lastIndex i (counted from 1):
\* at each position the quoted alternative is tried first, then the run of
\* characters that are no comma, which may be empty; an empty match is kept
\* in the result and moves lastIndex on by one
MatchAll(line, i) ==
  IF i > Len(line) + 1 THEN <<>>
  ELSE LET close == IF i <= Len(line) /\ line[i] = "\""
                      THEN Upto(line, i + 1, {"\""}) ELSE Len(line) + 1
           stop  == Upto(line, i, {","})
       IN  IF close <= Len(line)
             THEN <<SubSeq(line, i, close)>> \o MatchAll(line, close + 1)
             ELSE IF stop = i
               THEN << <<>> >> \o MatchAll(line, i + 1)
               ELSE <<SubSeq(line, i, stop - 1)>> \o MatchAll(line, stop)

\* field.replace(/"/g, '').trim()
Field(cs) == Trim(SelectSeq(cs, LAMBDA c : c # "\""))

\* the body of the loop of importSettings for one line: cfg is
\* [pt |-> newParTimes, rv |-> newRVUValues]
importLine(cfg, rawLine) ==
  LET line    == Trim(rawLine)
      matches == MatchAll(line, 1)
  IN  IF line = <<>> \/ Len(matches) < 3 THEN cfg
      ELSE LET settingType == Field(matches[1])
               key         == KeyOf(Field(matches[2]))
               value       == Field(matches[3])
               modality    == IF Len(matches) >= 4 /\ matches[4] # <<>>
                                THEN Field(matches[4]) ELSE <<>>
           IN  IF settingType = parTimeTag
                 THEN [cfg EXCEPT !.pt = WithKey(cfg.pt, key, IntOrZero(value))]
               ELSE IF settingType = rvuTag
                 THEN IF modality # <<>>
                        THEN \* a missing entry and the number 0 are replaced
                             \* by {}; another number is left as it is
                             LET old == IF key \in DOMAIN cfg.rv
                                             /\ (cfg.rv[key].isObj
                                                   \/ cfg.rv[key].num # DZero)
                                          THEN cfg.rv[key] ELSE RvuObj(<<>>)
                             IN  IF old.isObj
                                   THEN [cfg EXCEPT !.rv =
                                           WithKey(cfg.rv, key,
                                                   RvuObj(WithKey(old.sub, KeyOf(modality),
                                                                  FloatOrZero(value))))]
                                   ELSE cfg
                        ELSE [cfg EXCEPT !.rv =
                                WithKey(cfg.rv, key, RvuNum(FloatOrZero(value)))]
               ELSE cfg

RECURSIVE importLines(_, _, _)
\* the loop over the lines from i; the header row is skipped by starting at 2
importLines(cfg, lines, i) ==
  IF i > Len(lines) THEN cfg
  ELSE importLines(importLine(cfg, lines[i]), lines, i + 1)

\* the configuration that reader.onload sets from the text of the file
importSettings(text) ==
  importLines([pt |-> defaultParTimes, rv |-> defaultRVUValues], Split(text), 2)

\* choosing a file in the import dialog; from names where the text comes from
ImportSettings(b, text, from) ==
  /\ Room(b, "importSettings")
  /\ parTimes' = importSettings(text).pt
  /\ rvuValues' = importSettings(text).rv
  /\ Log(b, "importSettings", from, "Settings imported successfully!")
  /\ UNCHANGED <<startVars, counterVars, eventVars, selectionVars, metricVars,
                 draftVars, promptVars, isDoubleTapRunning, studyWasAutoPaused,
                 autoStartEnabled, now>>

\* resetSettings, confirmed in the dialog
ResetSettings(b) ==
  /\ Room(b, "resetSettings")
  /\ parTimes' = defaultParTimes
  /\ rvuValues' = defaultRVUValues
  /\ Log(b, "resetSettings", "", "Settings reset to defaults")
  /\ UNCHANGED <<startVars, counterVars, eventVars, selectionVars, metricVars,
                 draftVars, promptVars, isDoubleTapRunning, studyWasAutoPaused,
                 autoStartEnabled, now>>

(***************************************************************************)
(* The clock: k seconds pass and every interval that is running fires k    *)
(* times.  An interval created by a render fires 1000 ms later, so the     *)
(* zero-delay timeout queued by that render's handler runs first.          *)
(***************************************************************************)
Accrue(running, counter, k) == IF running THEN counter + k ELSE counter

\* a faulty variant: the rate is recomputed on every tick of the clock
TickRecomputesRate(b, k, maxClock) ==
  /\ Room(b, "tick")
  /\ ~interstitialOffPending
  /\ now + k * 1000 <= maxClock * 1000
  /\ now' = now + k * 1000
  /\ currentTime' = Accrue(isRunning, currentTime, k)
  /\ sessionTime' = Accrue(isSessionTimeRunning, sessionTime, k)
  /\ interstitialTime' = Accrue(isInterstitialRunning, interstitialTime, k)
  /\ adminTime' = Accrue(isAdminTimeRunning, adminTime, k)
  /\ commsTime' = Accrue(isCommsTimeRunning, commsTime, k)
  /\ breakTime' = Accrue(isBreakTimeRunning, breakTime, k)
  /\ doubleTapTime' = Accrue(isDoubleTapRunning, doubleTapTime, k)
  /\ timeSinceLastBreak' =
       Accrue(isSessionTimeRunning /\ ~isBreakTimeRunning, timeSinceLastBreak, k)
  /\ rvuPerHour' = IF sessionTime' > 0 THEN RateOf(totalRVU, sessionTime') ELSE rvuPerHour
  /\ hist' = [hist EXCEPT !.op = "tick", !.n = Charge(b, "tick"), !.branch = "", !.alert = "",
                          !.auto = FALSE, !.prompted = FALSE, !.resumed = "no",
                          !.pre = NoSnapshot]
  /\ UNCHANGED <<startVars, eventVars, selectionVars, configVars,
                 cumulativeVariance, studiesCompleted, totalRVU, completedStudies,
                 rollingRVU, lastStudy, currentStreak,
                 draftVars, promptVars, isDoubleTapRunning, studyWasAutoPaused,
                 autoStartEnabled>>

Tick(b, k, maxClock) ==
  /\ Room(b, "tick")
  /\ ~interstitialOffPending
  /\ now + k * 1000 <= maxClock * 1000
  /\ now' = now + k * 1000
  /\ currentTime' = Accrue(isRunning, currentTime, k)
  /\ sessionTime' = Accrue(isSessionTimeRunning, sessionTime, k)
  /\ interstitialTime' = Accrue(isInterstitialRunning, interstitialTime, k)
  /\ adminTime' = Accrue(isAdminTimeRunning, adminTime, k)
  /\ commsTime' = Accrue(isCommsTimeRunning, commsTime, k)
  /\ breakTime' = Accrue(isBreakTimeRunning, breakTime, k)
  /\ doubleTapTime' = Accrue(isDoubleTapRunning, doubleTapTime, k)
  /\ timeSinceLastBreak' =
       Accrue(isSessionTimeRunning /\ ~isBreakTimeRunning, timeSinceLastBreak, k)
  /\ hist' = [hist EXCEPT !.op = "tick", !.n = Charge(b, "tick"), !.branch = "", !.alert = "",
                          !.auto = FALSE, !.prompted = FALSE, !.resumed = "no",
                          !.pre = NoSnapshot]
  /\ UNCHANGED <<startVars, eventVars, selectionVars, configVars, metricVars,
                 draftVars, promptVars, isDoubleTapRunning, studyWasAutoPaused,
                 autoStartEnabled>>

(***************************************************************************)
(* The session: every handler, in sessions of at most MaxSteps steps       *)
(***************************************************************************)
MaxSteps == 6

MaxDone == 2

MaxClock == 3

Session == [free |-> {}, max |-> MaxSteps]

Mods == {"XR", "CT"}

Comps == {"Bilateral"}

Steps == {1}

ParEdits == {<<"XR", <<"0">> >>}

RvuEdits == {<<"CT", <<"0", ".", "3">>, Null>>}

Next ==
  \/ \E m \in Mods : SelectModality(Session, m)
  \/ \E c \in Comps : ToggleComplication(Session, c)
  \/ ToggleTimer(Session)
  \/ InterstitialOffTimeout(Session)
  \/ CompleteStudy(Session, MaxDone)
  \/ UndoLastStudy(Session)
  \/ ToggleAdminTime(Session)
  \/ ToggleCommsTime(Session)
  \/ InterstitialTileClick(Session)
  \/ ToggleBreakTime(Session)
  \/ ToggleDoubleTap(Session)
  \/ ToggleAutoStart(Session)
  \/ ToggleDraft(Session)
  \/ \E e \in ParEdits : UpdateParTime(Session, e[1], e[2])
  \/ \E e \in RvuEdits : UpdateRVUValue(Session, e[1], e[2], e[3])
  \/ \E k \in Steps : Tick(Session, k, MaxClock)

Spec == Init /\ [][Next]_vars

(***************************************************************************)
(* Properties of the session                                               *)
(***************************************************************************)
\* the categories whose flag is set: each one accrues on every tick
ActiveCategories ==
  {c \in {"Working", "Interstitial", "Admin", "Comms", "OnBreak", "QuickReview"} :
     CASE c = "Working"      -> isRunning
       [] c = "Interstitial" -> isInterstitialRunning
       [] c = "Admin"        -> isAdminTimeRunning
       [] c = "Comms"        -> isCommsTimeRunning
       [] c = "OnBreak"      -> isBreakTimeRunning
       [] c = "QuickReview"  -> isDoubleTapRunning}

\* C1: after any sequence of user transitions and ticks, at most one of the
\* six category flags Working, Interstitial, Admin, Comms, OnBreak,
\* QuickReview is active (in every state the handlers and the zero-delay
\* timeout of the first start have settled)
C1_AtMostOneCategoryActive ==
  ~interstitialOffPending => Cardinality(ActiveCategories) <= 1

\* C2: a completion immediately followed by an undo leaves cumulative
\* variance, total RVU, streak and the completed count equal to their
\* values before the completion
C2_CompleteThenUndoRestores ==
  [][(/\ hist.op = "completeStudy" /\ hist.branch = "done"
      /\ hist'.op = "undoLastStudy")
     => /\ cumulativeVariance' = hist.pre.variance
        /\ totalRVU' = hist.pre.total
        /\ currentStreak' = hist.pre.streak
        /\ studiesCompleted' = hist.pre.count]_vars

\* the step is the stop branch of toggleAdminTime or toggleCommsTime
StopsInterruption ==
  \/ hist'.op = "toggleAdminTime" /\ isAdminTimeRunning
  \/ hist'.op = "toggleCommsTime" /\ isCommsTimeRunning

\* the step stops the category that auto-paused the study
StopsSameInterruption ==
  \/ hist'.op = "toggleAdminTime" /\ isAdminTimeRunning /\ hist.intr.by = "admin"
  \/ hist'.op = "toggleCommsTime" /\ isCommsTimeRunning /\ hist.intr.by = "comms"

\* C4: Admin (or Comms) started while a study is being timed, then only
\* ticks, then the same category stopped: the study is running again,
\* paused and the auto-paused flag are cleared, and elapsed is what it was
\* when the interruption started
C4_InterruptionRestoresWork ==
  [][(hist.intr.has /\ hist.intr.clean /\ StopsSameInterruption)
     => /\ isRunning' /\ ~isPaused' /\ ~studyWasAutoPaused'
        /\ currentTime' = hist.intr.time]_vars

\* an interruption of a study with time on its clock, itself with time on
\* its clock, has just ended and resumed the study
C4_Witness ==
  /\ hist.op \in {"toggleAdminTime", "toggleCommsTime"}
  /\ hist.resumed = "clean"
  /\ currentTime > 0
  /\ adminTime + commsTime > 0

\* C5: whenever stopping Admin or Comms re-activates the study because the
\* auto-paused flag is set, it resumes the work that was interrupted,
\* whatever ran in between: the study is running and its kind is the kind
\* that was being timed when the auto-pause happened (the least the claim
\* asks; it asks the same of the modifiers and of the elapsed seconds)
C5_ResumesInterruptedWork ==
  [][(studyWasAutoPaused /\ StopsInterruption)
     => /\ isRunning'
        /\ selectedModality' = hist.intr.modality]_vars

\* the step invokes a guarded transition whose precondition is unmet
GuardUnmet ==
  \/ hist'.op = "toggleTimer" /\ ~isRunning /\ selectedModality = Null
  \/ hist'.op = "completeStudy"
       /\ (selectedModality = Null \/ (currentTime = 0 /\ ~isRunning))
  \/ hist'.op = "undoLastStudy" /\ ~lastStudy.has
  \/ hist'.op = "toggleDraft" /\ ~isDraftMode /\ selectedModality = Null
  \/ hist'.op = "toggleDraft" /\ isDraftMode /\ isRunning
  \/ hist'.op = "toggleDoubleTap" /\ ~isDoubleTapRunning
       /\ (selectedModality # Null \/ currentTime > 0)

\* C6: a guarded transition invoked with its precondition unmet leaves every
\* state cell unchanged
C6_UnmetGuardChangesNothing == [][GuardUnmet => UNCHANGED progVars]_vars

\* the draft was asked back while another study was being timed, and refused
C6_Witness ==
  /\ hist.op = "toggleDraft" /\ hist.branch = "resumeRejected"
  /\ isDraftMode /\ draftStudy.has /\ isRunning

(***************************************************************************)
(* Long runs of studies: one kind, studies started and completed at will,  *)
(* one long stretch of time, and StreakOps calls of the other handlers     *)
(***************************************************************************)
StreakDone == 7

StreakOps == 1

StreakClock == 100

StudyCycle ==
  [free |-> {"selectModality", "toggleTimer", "interstitialOff", "completeStudy",
             "tick"},
   max |-> StreakOps]

StreakSteps == {100}

NextStreak ==
  \/ SelectModality(StudyCycle, "XR")
  \/ ToggleTimer(StudyCycle)
  \/ InterstitialOffTimeout(StudyCycle)
  \/ CompleteStudy(StudyCycle, StreakDone)
  \/ \E k \in StreakSteps : Tick(StudyCycle, k, StreakClock)
  \/ UndoLastStudy(StudyCycle)
  \/ \E c \in Comps : ToggleComplication(StudyCycle, c)
  \/ ToggleAdminTime(StudyCycle)
  \/ ToggleCommsTime(StudyCycle)
  \/ InterstitialTileClick(StudyCycle)
  \/ ToggleBreakTime(StudyCycle)
  \/ ToggleDoubleTap(StudyCycle)
  \/ ToggleAutoStart(StudyCycle)
  \/ ToggleDraft(StudyCycle)
  \/ \E e \in ParEdits : UpdateParTime(StudyCycle, e[1], e[2])
  \/ \E e \in RvuEdits : UpdateRVUValue(StudyCycle, e[1], e[2], e[3])

SpecStreak == Init /\ [][NextStreak]_vars

\* C3: the streak is always an integer in [0, 6]; a completion with
\* variance <= 0 sets it to min(streak + 1, 6), a completion with
\* variance > 0 sets it to exactly 0, and no transition other than a
\* completion or an undo changes it
C3_StreakRule ==
  /\ [](currentStreak \in 0..6)
  /\ [][/\ (hist'.op = "completeStudy" /\ hist'.branch = "done")
             => IF currentTime - currentParTime <= 0
                  THEN currentStreak' = (IF currentStreak + 1 < 6
                                           THEN currentStreak + 1 ELSE 6)
                  ELSE currentStreak' = 0
         /\ hist'.op \notin {"completeStudy", "undoLastStudy"}
             => currentStreak' = currentStreak]_vars

\* a completion under par has met the clamp: the streak was 6 and stays 6
C3_Witness ==
  /\ hist.op = "completeStudy" /\ hist.branch = "done"
  /\ hist.pre.streak = 6 /\ currentStreak = 6

\* a completion over par has reset a streak
C3_ResetSeen ==
  /\ hist.op = "completeStudy" /\ hist.branch = "done"
  /\ hist.pre.streak > 0 /\ currentStreak = 0

(***************************************************************************)
(* Long sessions: one kind, studies started and completed at will, one     *)
(* stretch of two hours or a second less, the break prompt declined at     *)
(* will, and BreakOps calls of the other handlers                          *)
(***************************************************************************)
BreakDone == 2

BreakOps == 1

BreakClock == 7200

LongSession ==
  [free |-> {"selectModality", "toggleTimer", "interstitialOff", "completeStudy",
             "tick", "declineBreak"},
   max |-> BreakOps]

BreakSteps == {7199, 7200}

NextBreak ==
  \/ SelectModality(LongSession, "XR")
  \/ ToggleTimer(LongSession)
  \/ InterstitialOffTimeout(LongSession)
  \/ CompleteStudy(LongSession, BreakDone)
  \/ \E k \in BreakSteps : Tick(LongSession, k, BreakClock)
  \/ AcceptBreak(LongSession)
  \/ DeclineBreak(LongSession)
  \/ CloseAnimalMessage(LongSession)
  \/ ToggleBreakTime(LongSession)
  \/ UndoLastStudy(LongSession)
  \/ \E c \in Comps : ToggleComplication(LongSession, c)
  \/ ToggleAdminTime(LongSession)
  \/ ToggleCommsTime(LongSession)
  \/ InterstitialTileClick(LongSession)
  \/ ToggleDoubleTap(LongSession)
  \/ ToggleAutoStart(LongSession)
  \/ ToggleDraft(LongSession)
  \/ \E e \in ParEdits : UpdateParTime(LongSession, e[1], e[2])
  \/ \E e \in RvuEdits : UpdateRVUValue(LongSession, e[1], e[2], e[3])

SpecBreak == Init /\ [][NextBreak]_vars

\* the step is a completion that passes its guards
Completes == hist'.op = "completeStudy" /\ hist'.branch = "done"

\* d of the break policy, in seconds
SinceDecline ==
  IF lastBreakDeclineTime > 0 THEN timeSinceLastBreak - lastBreakDeclineTime
  ELSE timeSinceLastBreak

\* C9: at each successful completion a break suggestion is raised if and
\* only if, with the values held at that completion, the seconds since the
\* last break are >= 7200 and d >= 3600; no other transition raises one
C9_PromptRaisedExactlyWhenDue ==
  [][/\ Completes =>
          /\ hist'.prompted <=> (timeSinceLastBreak >= 7200 /\ SinceDecline >= 3600)
          /\ hist'.prompted => showBreakPrompt'
          /\ (~hist'.prompted) => (showBreakPrompt' = showBreakPrompt)
     /\ (~Completes) => (showBreakPrompt' => showBreakPrompt)]_vars

\* a completion at exactly two hours since the last break has raised the
\* suggestion
C9_Witness ==
  /\ hist.op = "completeStudy" /\ hist.prompted /\ showBreakPrompt
  /\ timeSinceLastBreak = 7200 /\ lastBreakDeclineTime = 0

\* a completion one second short of two hours has raised none
C9_QuietSeen ==
  /\ hist.op = "completeStudy" /\ hist.branch = "done" /\ ~hist.prompted
  /\ ~showBreakPrompt /\ timeSinceLastBreak = 7199

(***************************************************************************)
(* Declined breaks, from a first run with nothing saved: one kind, studies *)
(* started and completed at will, three hours of time in steps of an hour  *)
(* or a second less, the break prompt declined at will, and DeclineOps     *)
(* breaks started, stopped or accepted                                     *)
(***************************************************************************)
\* nothing is saved in localStorage: auto-start is off
InitFresh == Init /\ autoStartEnabled = FALSE

DeclineDone == 2

DeclineOps == 1

DeclineClock == 10800

Declining ==
  [free |-> {"selectModality", "toggleTimer", "interstitialOff", "completeStudy",
             "tick", "declineBreak"},
   max |-> DeclineOps]

DeclineSteps == {3599, 3600}

NextDecline ==
  \/ SelectModality(Declining, "XR")
  \/ ToggleTimer(Declining)
  \/ InterstitialOffTimeout(Declining)
  \/ CompleteStudy(Declining, DeclineDone)
  \/ \E k \in DeclineSteps : Tick(Declining, k, DeclineClock)
  \/ DeclineBreak(Declining)
  \/ AcceptBreak(Declining)
  \/ CloseAnimalMessage(Declining)
  \/ ToggleBreakTime(Declining)

SpecDecline == InitFresh /\ [][NextDecline]_vars

\* C10: a suggestion declined at t seconds since the last break, t >= 7200,
\* leaves the decline mark at t; the seconds since the last break keep
\* accruing; and while no break is started, a completion raises no
\* suggestion below t + 3600 and raises one from t + 3600 on
C10_DeclineRaisesTheBar ==
  [][/\ hist'.op = "declineBreak" /\ timeSinceLastBreak >= 7200
          => /\ lastBreakDeclineTime' = timeSinceLastBreak
             /\ timeSinceLastBreak' = timeSinceLastBreak
     /\ (/\ hist'.op = "tick" /\ lastBreakDeclineTime >= 7200
         /\ isSessionTimeRunning /\ ~isBreakTimeRunning)
          => /\ timeSinceLastBreak' = timeSinceLastBreak + (now' - now) \div 1000
             /\ lastBreakDeclineTime' = lastBreakDeclineTime
     /\ (Completes /\ lastBreakDeclineTime >= 7200)
          => IF timeSinceLastBreak < lastBreakDeclineTime + 3600
               THEN showBreakPrompt' = showBreakPrompt /\ ~hist'.prompted
               ELSE showBreakPrompt' /\ hist'.prompted]_vars

\* a suggestion was declined at two hours and the completion an hour later
\* has raised the next one
C10_Witness ==
  /\ hist.op = "completeStudy" /\ hist.prompted /\ showBreakPrompt
  /\ lastBreakDeclineTime = 7200 /\ timeSinceLastBreak = 10800

\* a suggestion was declined at two hours and the completion a second short
\* of an hour later has raised none
C10_QuietSeen ==
  /\ hist.op = "completeStudy" /\ hist.branch = "done" /\ ~hist.prompted
  /\ ~showBreakPrompt
  /\ lastBreakDeclineTime = 7200 /\ timeSinceLastBreak = 10799

(***************************************************************************)
(* Valuation: studies selected and settings edited at will                 *)
(***************************************************************************)
Valuing ==
  [free |-> {"selectModality", "toggleComplication", "updateParTime",
             "updateRVUValue"},
   max |-> 0]

ValMods == {"XR", "CT", "US"}

ValComps == {"+1 Section", "Vascular", "Bilateral"}

\* what is typed into the par time inputs: a negative number, a blank, a
\* number for the Bilateral entry
ValParEdits ==
  {<<"CT", <<"-", "5">> >>, <<"+1 Section", <<>> >>, <<"Bilateral", <<"3", "0">> >>}

\* what is typed into the RVU inputs: a modality, '+1 Section' for CT, and
\* '+1 Section' for US blanked
ValRvuEdits ==
  {<<"XR", <<"0", ".", "7">>, Null>>, <<"+1 Section", <<"0", ".", "3">>, "CT">>,
   <<"+1 Section", <<>>, "US">>}

NextVal ==
  \/ \E m \in ValMods : SelectModality(Valuing, m)
  \/ \E c \in ValComps : ToggleComplication(Valuing, c)
  \/ \E e \in ValParEdits : UpdateParTime(Valuing, e[1], e[2])
  \/ \E e \in ValRvuEdits : UpdateRVUValue(Valuing, e[1], e[2], e[3])

SpecVal == Init /\ [][NextVal]_vars

\* the selected complications other than Bilateral
OtherTags == {selectedComplications[i] : i \in 1..Len(selectedComplications)} \ {"Bilateral"}

RECURSIVE TargetSum(_)
\* the sum of the par times of a set of tags, a missing entry counting 0
TargetSum(tags) ==
  IF tags = {} THEN 0
  ELSE LET tag == CHOOSE x \in tags : TRUE
       IN  (IF tag \in DOMAIN parTimes THEN parTimes[tag] ELSE 0)
             + TargetSum(tags \ {tag})

\* targetDuration is the par time of the kind plus that of the modifiers
\* other than Bilateral, doubled when Bilateral is selected, and 0 with no
\* kind; CT with '+1 Section' is 360 by default, and 720 with Bilateral
C7_TargetDurationIsDoubledSum ==
  /\ selectedModality = Null => currentParTime = 0
  /\ selectedModality # Null =>
       LET sum == TargetSum({selectedModality}) + TargetSum(OtherTags)
       IN  currentParTime =
             IF SeqIncludes(selectedComplications, "Bilateral") THEN 2 * sum ELSE sum
  /\ calculateParTime(defaultParTimes, "CT", <<"+1 Section">>) = 360
  /\ calculateParTime(defaultParTimes, "CT", <<"+1 Section", "Bilateral">>) = 720

\* C7: for every selection and every configuration reachable through the
\* settings updates, targetDuration is non-negative, 0 with no kind, the sum
\* of the par times of the kind and of the modifiers other than Bilateral,
\* and exactly double that sum when Bilateral is selected
C7_TargetDuration ==
  /\ currentParTime >= 0
  /\ C7_TargetDurationIsDoubledSum

\* what the claim has a modifier add: its plain value, or its entry for the
\* kind, or 0
Contribution(tag) ==
  IF tag \notin DOMAIN rvuValues THEN DZero
  ELSE IF ~rvuValues[tag].isObj THEN rvuValues[tag].num
  ELSE IF selectedModality \in DOMAIN rvuValues[tag].sub
         THEN rvuValues[tag].sub[selectedModality]
  ELSE DZero

RECURSIVE UnitValueOf(_)
\* base value plus the contributions of the modifiers, in the order selected
UnitValueOf(tags) ==
  IF tags = <<>> THEN BaseRvu(rvuValues, selectedModality)
  ELSE DAdd(UnitValueOf(SubSeq(tags, 1, Len(tags) - 1)),
            Contribution(tags[Len(tags)]))

\* C8: unitValue is 0 with no kind and otherwise the base value of the kind
\* plus, for each selected modifier, its plain value or its entry for the
\* kind (0 when absent); toggling Bilateral never changes it; CT with
\* '+1 Section' is 1.5 by default
C8_UnitValue ==
  /\ selectedModality = Null => currentStudyRVU = DZero
  /\ selectedModality # Null => currentStudyRVU = UnitValueOf(selectedComplications)
  /\ calculateRVU(rvuValues, selectedModality,
                  toggleComplication(selectedComplications, "Bilateral"))
       = currentStudyRVU
  /\ calculateRVU(defaultRVUValues, "CT", <<"+1 Section">>) = D_1_5

\* CT with Bilateral and '+1 Section' selected, the latter's entry for CT
\* edited to 0.3: the study is worth 1.3
C8_Witness ==
  /\ selectedModality = "CT"
  /\ SeqIncludes(selectedComplications, "Bilateral")
  /\ SeqIncludes(selectedComplications, "+1 Section")
  /\ rvuValues["+1 Section"].sub["CT"] = D_0_3
  /\ currentStudyRVU = D_1_3

(***************************************************************************)
(* The rolling hour: CT studies started and completed at will, seventy     *)
(* minutes of time in steps of thirty and forty, and RollOps undos         *)
(***************************************************************************)
RollDone == 3

RollOps == 1

RollClock == 4200

Rolling ==
  [free |-> {"selectModality", "toggleTimer", "interstitialOff", "completeStudy",
             "tick"},
   max |-> RollOps]

RollSteps == {1800, 2400}

NextRoll ==
  \/ SelectModality(Rolling, "CT")
  \/ ToggleTimer(Rolling)
  \/ InterstitialOffTimeout(Rolling)
  \/ CompleteStudy(Rolling, RollDone)
  \/ \E k \in RollSteps : Tick(Rolling, k, RollClock)
  \/ UndoLastStudy(Rolling)

SpecRoll == Init /\ [][NextRoll]_vars

\* a completion that passed its guards has just run
JustCompleted == hist.op = "completeStudy" /\ hist.branch = "done"

\* the record is no older than 60 minutes
InTrailingHour(record) ==
  record.timestamp <= now /\ now - record.timestamp <= 60 * 60 * 1000

RECURSIVE WindowSum(_)
\* the unit values of the first k records that lie in the trailing hour,
\* added up in the order of the records
WindowSum(k) ==
  IF k = 0 THEN DZero
  ELSE IF InTrailingHour(completedStudies[k])
         THEN DAdd(WindowSum(k - 1), completedStudies[k].rvu)
         ELSE WindowSum(k - 1)

\* three completions of value 1.0 at minutes 0, 30 and 70
ThreeAtMinutes0And30And70 ==
  /\ Len(completedStudies) = 3
  /\ \A i \in 1..3 : completedStudies[i].rvu = D_1_0
  /\ completedStudies[1].timestamp = 0
  /\ completedStudies[2].timestamp = 30 * 60 * 1000
  /\ completedStudies[3].timestamp = 70 * 60 * 1000

\* C11: immediately after each completion at wall-clock time now, the
\* rolling RVU is the sum of the unit values of exactly those records, the
\* one just appended included, whose timestamp lies in the trailing 60
\* minutes of now; three completions of 1.0 at minutes 0, 30 and 70 give 2.0
C11_RollingIsTrailingHourSum ==
  JustCompleted =>
    /\ completedStudies[Len(completedStudies)].timestamp = now
    /\ rollingRVU = WindowSum(Len(completedStudies))
    /\ ThreeAtMinutes0And30And70 => rollingRVU = <<2 * 33554432, 0>>

\* the third of three completions of 1.0 at minutes 0, 30 and 70 has run
C11_Witness ==
  JustCompleted /\ ThreeAtMinutes0And30And70 /\ rollingRVU = DAdd(D_1_0, D_1_0)

\* a record exactly sixty minutes old is still counted
C11_EdgeSeen ==
  /\ JustCompleted /\ Len(completedStudies) = 2
  /\ completedStudies[1].timestamp = 0 /\ now = 60 * 60 * 1000
  /\ rollingRVU = DAdd(D_1_0, D_1_0)

(***************************************************************************)
(* Further properties of the session                                       *)
(***************************************************************************)
\* C12: the session clock is not running before the first transition into
\* Working, starts running at that transition, and is running in every later
\* state whichever category is active: no step stops it or resets it, and
\* every tick adds to it
C12_SessionClockRunsFromFirstWork ==
  /\ ~isSessionTimeRunning
  /\ [](~isSessionTimeRunning => (~isRunning /\ sessionTime = 0))
  /\ [][/\ (~isSessionTimeRunning /\ isSessionTimeRunning') => (~isRunning /\ isRunning')
        /\ (~isRunning /\ isRunning') => isSessionTimeRunning'
        /\ isSessionTimeRunning =>
             /\ isSessionTimeRunning'
             /\ sessionTime' >= sessionTime
             /\ hist'.op = "tick" => sessionTime' = sessionTime + (now' - now) \div 1000]_vars

\* the session clock has accrued while a break, and no study, was running
C12_Witness ==
  /\ isSessionTimeRunning /\ sessionTime > 0
  /\ isBreakTimeRunning /\ ~isRunning /\ breakTime > 0

\* C13: undo is single-level.  There is one snapshot cell; every completion
\* overwrites it with its own variance, unit value and the streak before
\* it; an undo consumes it, taking that completion's contribution, and no
\* more, off the cumulative variance, the total RVU and the completed
\* count; an undo with no snapshot changes nothing; nothing else writes it
C13_UndoIsSingleLevel ==
  [][/\ Completes =>
          lastStudy' = [has |-> TRUE, variance |-> currentTime - currentParTime,
                        rvu |-> currentStudyRVU, streakBefore |-> currentStreak]
     /\ (hist'.op = "undoLastStudy" /\ lastStudy.has) =>
          /\ ~lastStudy'.has
          /\ cumulativeVariance' = cumulativeVariance - lastStudy.variance
          /\ totalRVU' = DSub(totalRVU, lastStudy.rvu)
          /\ studiesCompleted' = studiesCompleted - 1
     /\ (hist'.op = "undoLastStudy" /\ hist.op = "completeStudy" /\ hist.branch = "done") =>
          /\ cumulativeVariance' = hist.pre.variance
          /\ studiesCompleted' = hist.pre.count
     /\ (hist'.op = "undoLastStudy" /\ ~lastStudy.has) => UNCHANGED progVars
     /\ hist'.op \notin {"completeStudy", "undoLastStudy"} => lastStudy' = lastStudy]_vars

\* two studies were completed, one undo took the second back, and a
\* further undo has just been refused
C13_Witness ==
  /\ hist.op = "undoLastStudy" /\ hist.branch = "rejected"
  /\ Len(completedStudies) = 2 /\ studiesCompleted = 1
  /\ ~lastStudy.has /\ totalRVU # DZero

\* C14: the draft slot is mutually exclusive with an active selection: in
\* no reachable state is the draft slot occupied while a kind is selected
C14_DraftExcludesSelection == ~(draftStudy.has /\ selectedModality # Null)


\* C15: after a successful resume of the draft the restored work item is not
\* being timed: Working stays inactive and the active categories are those
\* of the state before, whatever the auto-start preference is
C15_ResumeDoesNotStartWork ==
  [][(hist'.op = "toggleDraft" /\ hist'.branch = "resume")
       => (~isRunning' /\ ActiveCategories' = ActiveCategories)]_vars


\* C16: rvuPerHour and rollingRVU change only in steps of completeStudy and
\* undoLastStudy that take effect: every tick and every other step leaves
\* both unchanged
C16_RatesChangeOnlyOnCompleteOrUndo ==
  [][(<<rvuPerHour, rollingRVU>>' # <<rvuPerHour, rollingRVU>>)
       => (hist'.op \in {"completeStudy", "undoLastStudy"} /\ hist'.branch = "done")]_vars

\* the clock has ticked after a completion that set both figures
C16_Witness ==
  /\ hist.op = "tick"
  /\ ~rvuPerHour.zero
  /\ rvuPerHour.seconds < sessionTime
  /\ rollingRVU # DZero


\* C17: completeStudy takes effect exactly when a modality is selected and
\* the study has elapsed time or is running; it then leaves Working inactive,
\* Interstitial active, the selection empty, the elapsed counter at 0 and the
\* pause flag cleared, counts one more study, and adds the variance
\* (elapsed - par time) and the study's RVU, both taken from the selection
\* and the elapsed seconds held when the handler ran
C17_CompletionEffects ==
  [][(hist'.op = "completeStudy")
       => /\ (hist'.branch = "done")
               <=> (selectedModality # Null /\ (currentTime > 0 \/ isRunning))
          /\ (hist'.branch = "done")
               => /\ ~isRunning'
                  /\ isInterstitialRunning'
                  /\ selectedModality' = Null
                  /\ selectedComplications' = <<>>
                  /\ currentTime' = 0
                  /\ ~isPaused'
                  /\ studiesCompleted' = studiesCompleted + 1
                  /\ cumulativeVariance'
                       = cumulativeVariance + (currentTime - currentParTime)
                  /\ totalRVU' = DAdd(totalRVU, currentStudyRVU)]_vars

\* a second study has just been completed off par
C17_Witness ==
  /\ JustCompleted
  /\ hist.pre.count = 1
  /\ studiesCompleted = 2
  /\ lastStudy.variance # 0
  /\ cumulativeVariance = hist.pre.variance + lastStudy.variance
  /\ totalRVU = DAdd(hist.pre.total, lastStudy.rvu)
  /\ lastStudy.rvu # DZero
  /\ selectedModality = Null /\ selectedComplications = <<>>
  /\ ~isRunning /\ isInterstitialRunning /\ ~isPaused


\* C18: the first start's switching of Interstitial on and, by a deferred
\* call, off again is a net no-op under every interleaving; in particular
\* when the study is paused before the deferred call runs, that call leaves
\* Interstitial active
C18_DeferredSwitchOffIsNoOp ==
  [][(hist'.op = "interstitialOff" /\ hist.op = "toggleTimer" /\ hist.branch = "pause")
       => isInterstitialRunning']_vars


\* the category counters that a step moves forward
CountersAdvanced ==
  {c \in {"Working", "Interstitial", "Admin", "Comms", "OnBreak", "QuickReview"} :
     \/ c = "Working" /\ currentTime' # currentTime
     \/ c = "Interstitial" /\ interstitialTime' # interstitialTime
     \/ c = "Admin" /\ adminTime' # adminTime
     \/ c = "Comms" /\ commsTime' # commsTime
     \/ c = "OnBreak" /\ breakTime' # breakTime
     \/ c = "QuickReview" /\ doubleTapTime' # doubleTapTime}

\* C19: on every tick each counter moves by exactly what its eligibility
\* implies (one unit per second iff its flag is set; timeSinceLastBreak iff
\* the session clock runs and no break is on), no tick moves two category
\* counters, and a tick changes no other state
C19_TickAccrual ==
  [][(hist'.op = "tick")
       => LET k == (now' - now) \div 1000
          IN  /\ currentTime' = currentTime + (IF isRunning THEN k ELSE 0)
              /\ sessionTime' = sessionTime + (IF isSessionTimeRunning THEN k ELSE 0)
              /\ interstitialTime'
                   = interstitialTime + (IF isInterstitialRunning THEN k ELSE 0)
              /\ adminTime' = adminTime + (IF isAdminTimeRunning THEN k ELSE 0)
              /\ commsTime' = commsTime + (IF isCommsTimeRunning THEN k ELSE 0)
              /\ breakTime' = breakTime + (IF isBreakTimeRunning THEN k ELSE 0)
              /\ doubleTapTime' = doubleTapTime + (IF isDoubleTapRunning THEN k ELSE 0)
              /\ timeSinceLastBreak'
                   = timeSinceLastBreak
                       + (IF isSessionTimeRunning /\ ~isBreakTimeRunning THEN k ELSE 0)
              /\ Cardinality(CountersAdvanced) <= 1
              /\ UNCHANGED <<startVars, eventVars, selectionVars, configVars,
                             metricVars, draftVars, promptVars, isDoubleTapRunning,
                             studyWasAutoPaused, autoStartEnabled>>]_vars


\* C20: from every reachable state a start of the study by toggleTimer
\* (modality selected, not running) leaves Working active, the pause flag
\* cleared and Interstitial, Admin, Comms and the break all inactive; a pause
\* (running) leaves Working inactive, the pause flag set and Interstitial
\* active
C20_StartAndPauseEffects ==
  [][(hist'.op = "toggleTimer")
       => /\ (hist'.branch = "start")
               => /\ selectedModality # Null /\ ~isRunning
                  /\ isRunning' /\ ~isPaused'
                  /\ ~isInterstitialRunning'
                  /\ ~isAdminTimeRunning'
                  /\ ~isCommsTimeRunning'
                  /\ ~isBreakTimeRunning'
          /\ (hist'.branch = "pause")
               => /\ isRunning
                  /\ ~isRunning' /\ isPaused' /\ isInterstitialRunning']_vars


(***************************************************************************)
(* Breaks taken from the Break tile and from the prompt, in long sessions  *)
(***************************************************************************)
AcceptDone == 2

AcceptOps == 2

AcceptClock == 14400

Resting ==
  [free |-> {"selectModality", "toggleTimer", "interstitialOff", "completeStudy",
             "tick"},
   max |-> AcceptOps]

AcceptSteps == {7200}

NextAccept ==
  \/ SelectModality(Resting, "XR")
  \/ ToggleTimer(Resting)
  \/ InterstitialOffTimeout(Resting)
  \/ CompleteStudy(Resting, AcceptDone)
  \/ \E k \in AcceptSteps : Tick(Resting, k, AcceptClock)
  \/ ToggleBreakTime(Resting)
  \/ AcceptBreak(Resting)
  \/ DeclineBreak(Resting)
  \/ CloseAnimalMessage(Resting)

SpecAccept == Init /\ [][NextAccept]_vars

\* the effects of starting a break
BreakStarted ==
  /\ isBreakTimeRunning'
  /\ ~isInterstitialRunning' /\ ~isAdminTimeRunning' /\ ~isCommsTimeRunning'
  /\ timeSinceLastBreak' = 0
  /\ lastBreakDeclineTime' = 0
  /\ breaksTaken' = breaksTaken + 1

\* C21: a break started from the Break button or by accepting the break
\* prompt leaves the break running and Interstitial, Admin and Comms
\* stopped, sets timeSinceLastBreak and lastBreakDeclineTime to 0 and adds
\* exactly 1 to breaksTaken; stopping the break leaves it stopped and
\* Interstitial running and changes none of those three values
C21_BreakStartAndStop ==
  [][/\ (hist'.op = "toggleBreakTime" /\ ~isBreakTimeRunning) => BreakStarted
     /\ (hist'.op = "acceptBreak") => BreakStarted
     /\ (hist'.op = "toggleBreakTime" /\ isBreakTimeRunning)
          => /\ ~isBreakTimeRunning' /\ isInterstitialRunning'
             /\ UNCHANGED <<timeSinceLastBreak, lastBreakDeclineTime, breaksTaken>>]_vars


\* C22: no break is forced: the break starts running only in a step of the
\* Break tile or of the prompt's YES button; a completion that raises the
\* prompt moves the categories as any completion does and leaves the break
\* flag and timeSinceLastBreak alone, and declining the prompt leaves every
\* category flag and timeSinceLastBreak unchanged
C22_NoBreakIsForced ==
  [][/\ (~isBreakTimeRunning /\ isBreakTimeRunning')
          => hist'.op \in {"toggleBreakTime", "acceptBreak"}
     /\ (Completes /\ hist'.prompted)
          => /\ showBreakPrompt'
             /\ ActiveCategories' = (ActiveCategories \ {"Working"}) \cup {"Interstitial"}
             /\ UNCHANGED <<isBreakTimeRunning, timeSinceLastBreak, breaksTaken>>
     /\ (hist'.op = "declineBreak")
          => /\ ActiveCategories' = ActiveCategories
             /\ UNCHANGED <<timeSinceLastBreak, breaksTaken>>]_vars

\* a prompt was raised and declined, and no break was taken
C22_Witness ==
  /\ hist.op = "declineBreak"
  /\ ~showBreakPrompt
  /\ ~isBreakTimeRunning
  /\ breaksTaken = 0
  /\ timeSinceLastBreak >= PromptAfterMinutes * 60
  /\ lastBreakDeclineTime = timeSinceLastBreak


\* 1 when the flag goes from unset to set in the step, else 0
Entered(before, after) == IF ~before /\ after THEN 1 ELSE 0

\* C23: each event counter counts the entries into its category: it grows
\* by exactly 1 in a step that starts the category and is left as it is by
\* stops, by the Interstitial tile, by an auto-resume and by every other
\* step, so it never decreases
C23_EventCountersCountEntries ==
  [][/\ adminEvents' = adminEvents + Entered(isAdminTimeRunning, isAdminTimeRunning')
     /\ commsEvents' = commsEvents + Entered(isCommsTimeRunning, isCommsTimeRunning')
     /\ breaksTaken' = breaksTaken + Entered(isBreakTimeRunning, isBreakTimeRunning')
     /\ doubleTapEvents'
          = doubleTapEvents + Entered(isDoubleTapRunning, isDoubleTapRunning')]_vars

\* Admin was entered twice and left by the Interstitial tile, Comms and the
\* break once each
C23_Witness ==
  /\ hist.op = "interstitialTile" /\ hist.branch = "switch"
  /\ adminEvents = 2 /\ commsEvents = 1 /\ breaksTaken = 1
  /\ ~isAdminTimeRunning /\ ~isCommsTimeRunning


\* C24: Admin time and Comms time never run together: in every reachable
\* state at most one of the two flags is set, and a step that starts either
\* one leaves the other and Interstitial stopped
C24_AdminAndCommsExclude ==
  /\ [](~(isAdminTimeRunning /\ isCommsTimeRunning))
  /\ [][/\ (hist'.op = "toggleAdminTime" /\ ~isAdminTimeRunning)
             => (isAdminTimeRunning' /\ ~isCommsTimeRunning' /\ ~isInterstitialRunning')
        /\ (hist'.op = "toggleCommsTime" /\ ~isCommsTimeRunning)
             => (isCommsTimeRunning' /\ ~isAdminTimeRunning'
                   /\ ~isInterstitialRunning')]_vars

\* Comms time has just been started over one second of running Admin time
C24_Witness ==
  /\ hist.op = "toggleCommsTime" /\ hist.branch = "start"
  /\ hist.n = 3
  /\ adminEvents = 1 /\ adminTime = 1 /\ commsEvents = 1
  /\ isCommsTimeRunning /\ ~isAdminTimeRunning


\* C25: the draft round trip: entering draft mode stores the modality, the
\* complications, the elapsed seconds and the par time of the selection as
\* they are at that moment; ticks leave the stored study alone; resuming
\* puts back exactly the stored modality, complications and elapsed seconds
\* and empties the slot
C25_DraftRoundTrip ==
  [][/\ (hist'.op = "toggleDraft" /\ hist'.branch = "enter")
          => draftStudy' = [has |-> TRUE, modality |-> selectedModality,
                            complications |-> selectedComplications,
                            currentTime |-> currentTime,
                            parTime |-> calculateParTime(parTimes, selectedModality,
                                                         selectedComplications)]
     /\ (hist'.op = "tick") => UNCHANGED <<draftVars, selectionVars, isRunning>>
     /\ (hist'.op = "toggleDraft" /\ hist'.branch = "resume")
          => /\ selectedModality' = draftStudy.modality
             /\ selectedComplications' = draftStudy.complications
             /\ currentTime' = draftStudy.currentTime
             /\ draftStudy' = NoDraft
             /\ ~isDraftMode']_vars

\* a study with one second elapsed was put in the draft slot, a second
\* passed, and it has just been resumed
C25_Witness ==
  /\ hist.op = "toggleDraft" /\ hist.branch = "resume"
  /\ selectedModality # Null
  /\ currentTime = 1
  /\ interstitialTime = 1
  /\ ~draftStudy.has /\ ~isDraftMode


\* C26: entering draft mode stops the study without completing it: the
\* step leaves cumulativeVariance, totalRVU, studiesCompleted, the streak,
\* rvuPerHour, rollingRVU, lastStudy, completedStudies and the state of the
\* break prompt (prompt flags, decline mark, timeSinceLastBreak, breaksTaken)
\* unchanged, and leaves Working stopped and Interstitial running
C26_EnterDraftCompletesNothing ==
  [][(hist'.op = "toggleDraft" /\ hist'.branch = "enter")
       => /\ UNCHANGED <<metricVars, promptVars, timeSinceLastBreak, breaksTaken>>
          /\ ~isRunning'
          /\ isInterstitialRunning']_vars

\* a running study with one second elapsed has just been put aside
C26_Witness ==
  /\ hist.op = "toggleDraft" /\ hist.branch = "enter"
  /\ hist.n = 4
  /\ draftStudy.has /\ draftStudy.currentTime = 1
  /\ studiesCompleted = 0 /\ ~lastStudy.has
  /\ ~isRunning /\ isInterstitialRunning


\* C27: a stored draft is never overwritten: while the slot is occupied no
\* toggleDraft takes the enter branch and the stored study changes only when
\* a resume empties the slot; isDraftMode is set exactly when the slot is
\* occupied
C27_DraftSlotIsNeverOverwritten ==
  /\ [](isDraftMode <=> draftStudy.has)
  /\ [][draftStudy.has
          => /\ ~(hist'.op = "toggleDraft" /\ hist'.branch = "enter")
             /\ \/ draftStudy' = draftStudy
                \/ /\ hist'.op = "toggleDraft" /\ hist'.branch = "resume"
                   /\ draftStudy' = NoDraft]_vars

\* with a draft stored, another study was selected and started and the
\* Draft button pressed: the stored study is still there
C27_Witness ==
  /\ hist.op = "toggleDraft" /\ hist.branch = "resumeRejected"
  /\ draftStudy.has /\ isDraftMode
  /\ isRunning
  /\ selectedModality \notin {Null, draftStudy.modality}


\* C28: undoLastStudy writes only cumulativeVariance, totalRVU, the streak,
\* rvuPerHour, studiesCompleted and lastStudy: it leaves the selection, the
\* elapsed seconds, every category flag and counter, the draft slot, the
\* break prompt state, rollingRVU and the settings unchanged; and
\* completedStudies only ever grows, by one record appended per completion,
\* and is never shortened, not even by the undo
C28_UndoFrameAndAppendOnlyLog ==
  [][/\ (hist'.op = "undoLastStudy")
          => UNCHANGED <<startVars, counterVars, eventVars, selectionVars, configVars,
                         draftVars, promptVars, isDoubleTapRunning, studyWasAutoPaused,
                         autoStartEnabled, completedStudies, rollingRVU>>
     /\ IF Completes
          THEN /\ Len(completedStudies') = Len(completedStudies) + 1
               /\ SubSeq(completedStudies', 1, Len(completedStudies)) = completedStudies
          ELSE completedStudies' = completedStudies]_vars

\* the one completion of the session has just been undone; its record is
\* still in the list
C28_Witness ==
  /\ hist.op = "undoLastStudy" /\ hist.branch = "done"
  /\ studiesCompleted = 0
  /\ Len(completedStudies) = 1
  /\ rollingRVU # DZero
  /\ totalRVU = DZero


\* C29: with auto-start enabled, a modality that becomes selected while the
\* study timer is not running and no draft is held starts the timer in the
\* same step, with no separate press of the Par Time tile: Working is
\* running, the pause flag is cleared and the session clock is running;
\* a selection made while a draft is held, with auto-start off, or while the
\* timer runs leaves every category flag as it was
C29_AutoStartOnSelect ==
  [][(hist'.op = "selectModality" /\ selectedModality' # selectedModality)
       => IF autoStartEnabled /\ ~isRunning /\ ~isDraftMode
            THEN /\ isRunning' /\ ~isPaused' /\ isSessionTimeRunning'
                 /\ ~isAdminTimeRunning' /\ ~isCommsTimeRunning' /\ ~isBreakTimeRunning'
            ELSE UNCHANGED startVars]_vars

\* auto-start has started the second study of the session on its selection
C29_Witness ==
  /\ hist.op = "selectModality" /\ hist.auto
  /\ studiesCompleted = 1
  /\ isRunning /\ ~isInterstitialRunning /\ isSessionTimeRunning
  /\ currentTime = 0
  /\ ~isDraftMode

\* with auto-start on and a draft held, a modality was selected and the
\* timer did not start
C29_DraftSeen ==
  /\ hist.op = "selectModality" /\ ~hist.auto
  /\ autoStartEnabled /\ isDraftMode
  /\ selectedModality # Null /\ ~isRunning


\* C30: stopping Double Tap leaves it stopped and Interstitial running and
\* puts doubleTapTime back to 0 while doubleTapEvents keeps its value;
\* Double Tap starts only with no modality selected and no elapsed seconds;
\* and so Double Tap is never running while the study timer runs
C30_DoubleTapNeverDuringWork ==
  /\ [][(hist'.op = "toggleDoubleTap")
          => /\ (hist'.branch = "stop")
                  => /\ ~isDoubleTapRunning' /\ isInterstitialRunning'
                     /\ doubleTapTime' = 0
                     /\ doubleTapEvents' = doubleTapEvents
             /\ (hist'.branch = "start")
                  => (selectedModality = Null /\ currentTime = 0)]_vars
  /\ [](~(isDoubleTapRunning /\ isRunning))


(***************************************************************************)
(* The order of the selection: CT studies with '+1 Section' and CTA        *)
(***************************************************************************)
OrderMods == {"CT", "XR"}

OrderComps == {"+1 Section", "CTA", "Bilateral"}

\* what is typed into the RVU inputs: 0.3 for '+1 Section' on CT, 0.7 for XR
OrderRvuEdits ==
  {<<"+1 Section", <<"0", ".", "3">>, "CT">>, <<"XR", <<"0", ".", "7">>, Null>>}

NextOrder ==
  \/ \E m \in OrderMods : SelectModality(Valuing, m)
  \/ \E c \in OrderComps : ToggleComplication(Valuing, c)
  \/ \E e \in OrderRvuEdits : UpdateRVUValue(Valuing, e[1], e[2], e[3])

SpecOrder == Init /\ [][NextOrder]_vars

\* the set of the tags of a selection
TagsOf(s) == {s[i] : i \in 1..Len(s)}

\* the selections that hold the same tags as s in another order
Reorderings(s) ==
  {[i \in 1..Len(s) |-> s[f[i]]] : f \in Permutations(1..Len(s))}

\* C31: the selected complications behave as a set: no tag is held twice,
\* toggling a tag twice gives back the same tags, and the par time and the
\* RVU of the study are the same for every order in which the same tags
\* could have been toggled, wherever Bilateral stands among them
C31_ComplicationsAreASet ==
  /\ Cardinality(TagsOf(selectedComplications)) = Len(selectedComplications)
  /\ \A c \in complications :
       TagsOf(toggleComplication(toggleComplication(selectedComplications, c), c))
         = TagsOf(selectedComplications)
  /\ \A p \in Reorderings(selectedComplications) :
       /\ calculateParTime(parTimes, selectedModality, p) = currentParTime
       /\ calculateRVU(rvuValues, selectedModality, p) = currentStudyRVU


C32_ZeroSeen ==
  /\ hist.op = "undoLastStudy" /\ hist.branch = "done"
  /\ sessionTime = 0
  /\ rvuPerHour.zero


(***************************************************************************)
(* The settings file: edits, export, import, reset                         *)
(***************************************************************************)
Filing ==
  [free |-> {"updateParTime", "updateRVUValue", "importSettings", "resetSettings"},
   max |-> 0]

\* a file written by hand: the header, a row of one field, a par time row
\* and an RVU row
fileWithBadRow ==
  <<"S", "e", "t", "t", "i", "n", "g", " ", "T", "y", "p", "e", ",", "K",
    "e", "y", ",", "V", "a", "l", "u", "e", ",", "M", "o", "d", "a", "l",
    "i", "t", "y", "\n", "P", "a", "r", " ", "T", "i", "m", "e", "\n", "P",
    "a", "r", " ", "T", "i", "m", "e", ",", "\"", "X", "R", "\"", ",", "6",
    "0", ",", "\n", "R", "V", "U", ",", "\"", "C", "T", "\"", ",", "1",
    ".", "5", ",">>

NextCsv ==
  \/ \E e \in ValParEdits : UpdateParTime(Filing, e[1], e[2])
  \/ \E e \in ValRvuEdits : UpdateRVUValue(Filing, e[1], e[2], e[3])
  \/ ImportSettings(Filing, exportSettings(parTimes, rvuValues), "exported")
  \/ ImportSettings(Filing, fileWithBadRow, "file")
  \/ ResetSettings(Filing)

SpecCsv == Init /\ [][NextCsv]_vars

\* C33: import reads what export writes: importing the text exported from
\* a configuration over the default keys gives that configuration back; and
\* a row that is malformed is skipped while the well-formed rows of the
\* file are applied on top of the defaults
C33_ImportReadsWhatExportWrites ==
  [][/\ (/\ hist'.op = "importSettings" /\ hist'.branch = "exported"
         /\ DOMAIN parTimes = DOMAIN defaultParTimes
         /\ DOMAIN rvuValues = DOMAIN defaultRVUValues)
          => (parTimes' = parTimes /\ rvuValues' = rvuValues)
     /\ (hist'.op = "importSettings" /\ hist'.branch = "file")
          => /\ parTimes' = WithKey(defaultParTimes, "XR", 60)
             /\ rvuValues' = WithKey(defaultRVUValues, "CT", RvuNum(D_1_5))]_vars



\* C34: Working is active only while a kind is selected: in every reachable
\* state a running study timer has a selected kind, so that elapsed seconds
\* never accrue to a work item that does not exist
C34_WorkingHasKind == isRunning => selectedModality # Null



\* C35: the auto-paused flag is set only while the interruption that set it
\* is in progress: in every reachable state in which it is set, Admin or
\* Comms is active, Working is inactive and a kind is selected
C35_AutoPausedOnlyDuringInterruption ==
  studyWasAutoPaused
    => /\ isAdminTimeRunning \/ isCommsTimeRunning
       /\ ~isRunning
       /\ selectedModality # Null



\* C36: no session time goes unclassified: in every state in which the
\* session clock runs at least one of Working, Interstitial, Admin, Comms,
\* OnBreak and QuickReview is active, under every interleaving of the
\* handlers, the ticks and the deferred switching off of Interstitial
C36_SessionTimeIsClassified ==
  isSessionTimeRunning => ActiveCategories # {}



(***************************************************************************)
(* Selecting, timing and drafting: a second study begun while a draft is   *)
(* held                                                                    *)
(***************************************************************************)
DraftClock == 2

Drafting ==
  [free |-> {"selectModality", "toggleTimer", "interstitialOff", "toggleDraft", "tick"},
   max |-> 0]

NextDraft ==
  \/ \E m \in Mods : SelectModality(Drafting, m)
  \/ ToggleTimer(Drafting)
  \/ InterstitialOffTimeout(Drafting)
  \/ ToggleDraft(Drafting)
  \/ \E k \in Steps : Tick(Drafting, k, DraftClock)

SpecDraft == Init /\ [][NextDraft]_vars


\* C37: resuming the draft never discards work in progress: a resume that
\* succeeds overwrites no selection with elapsed seconds, and the elapsed
\* seconds of a work item go down only when completeStudy has counted them
\* or when entering draft mode has moved them into the draft slot
C37_ResumeDiscardsNoWork ==
  [][/\ (hist'.op = "toggleDraft" /\ hist'.branch = "resume")
          => ~(selectedModality # Null /\ currentTime > 0)
     /\ (currentTime > 0 /\ currentTime' # currentTime /\ hist'.op # "tick")
          => \/ hist'.op = "completeStudy" /\ hist'.branch = "done"
             \/ hist'.op = "toggleDraft" /\ hist'.branch \in {"enter", "resume"}]_vars



\* C38: toggling the auto-start preference by itself never changes which
\* category is active: a step of toggleAutoStart, in which no kind becomes
\* selected, leaves Working, paused, the auto-paused flag and every category
\* flag as they were, also when a kind is selected and its timer is paused
C38_AutoStartToggleKeepsCategories ==
  [][(hist'.op = "toggleAutoStart")
       => UNCHANGED <<isRunning, isPaused, studyWasAutoPaused,
                      isInterstitialRunning, isAdminTimeRunning,
                      isCommsTimeRunning, isBreakTimeRunning,
                      isDoubleTapRunning>>]_vars



\* C39: in every reachable state OnBreak active implies that the seconds
\* since the last break and the decline mark are both 0; the decline mark
\* never exceeds the seconds since the last break; and so no completion
\* performed during a break raises a break suggestion
C39_BreakZeroesBothMarks ==
  /\ [](isBreakTimeRunning => (timeSinceLastBreak = 0 /\ lastBreakDeclineTime = 0))
  /\ [](lastBreakDeclineTime <= timeSinceLastBreak)
  /\ [][(Completes /\ isBreakTimeRunning) => ~hist'.prompted]_vars

\* a break started after a declined suggestion: the session is two hours
\* old and both marks are back at 0
C39_Witness ==
  /\ isBreakTimeRunning /\ breaksTaken = 1 /\ showAnimalMessage
  /\ sessionTime >= 7200
  /\ timeSinceLastBreak = 0 /\ lastBreakDeclineTime = 0

\* a study completed during a break, two hours into the session
C39_CompletedOnBreak ==
  /\ hist.op = "completeStudy" /\ hist.branch = "done" /\ isBreakTimeRunning
  /\ sessionTime >= 7200 /\ ~hist.prompted

\* a decline mark that is set and below the seconds since the last break
C39_MarkBelow ==
  0 < lastBreakDeclineTime /\ lastBreakDeclineTime < timeSinceLastBreak

=============================================================================
